---- MODULE Spec2Model ----
(***************************************************************************)
(* A model of the Pascal backend of wit-bindgen (crates/pascal/src/lib.rs). *)
(*                                                                         *)
(* Identifiers are modelled as sequences of tokens: the generated string   *)
(* is the tokens joined by "_" (to_snake_case of a kebab-case WIT name is   *)
(* its words joined by "_"), so format!("{a}_{b}_t") is a \o b \o <<"t">>.  *)
(* Output buffers are sequences of items, one item per emitted fragment.   *)
(***************************************************************************)
EXTENDS Integers, Sequences, FiniteSets, TLC

VARIABLES
    \* the generation pass (struct Pascal, lib.rs:16-38, and its driver)
    world,          \* the world being generated: [imports, exports] (input)
    opts,           \* Opts (lib.rs:67-102)
    multi,          \* the function (0: none) whose core signature has several results
    todo,           \* the generator calls still to make, in order
    aborted,        \* "none", or the panic that ended the pass
    type_names,     \* Pascal.type_names: TypeId -> name
    prim_names,     \* Pascal.prim_names
    dtor_funcs,     \* Pascal.dtor_funcs: TypeId -> name
    resources,      \* Pascal.resources: TypeId -> ResourceInfo
    names,          \* Pascal.names (Ns): the symbols handed out
    renamed_interfaces, \* Pascal.renamed_interfaces: set of [key, to]
    needs_string,   \* Pascal.needs_string
    gen_world,      \* Pascal.world: the (possibly renamed) world name
    gsrc,           \* Pascal.src
    isrc,           \* InterfaceGenerator.src of the generator in use
    cur,            \* InterfaceGenerator: [in_import, interface, key]
    files,          \* what finish() pushed: the three source files
    return_pointer_area, \* Pascal.return_pointer_area_size and _align
    needs_union,    \* Pascal.needs_union_*: the flags that are set
    \* the signature classifier applied to one function result
    sig_in,         \* [ty, flat]: the declared result and sig_flattening
    sig_out,        \* the CSig parts print_sig computed, or NoSig
    \* one integer conversion pair applied to one value
    cv_in,          \* [ty, bits]: component type and a value of it, or core bits
    cv_core,        \* the core value after lowering
    cv_out,         \* the component value after lifting
    cv_pc,          \* "start", "lowered", "lifted"
    \* the code generator of one function body (struct FunctionBindgen)
    fn_in,          \* the function, the side it is generated for, its instructions
    fb,             \* FunctionBindgen: [pc, borrows, src, ..], pc counting instructions
    \* one output buffer (struct Source, source.rs:4-10)
    out,            \* Source: [s, indent, in_line_comment, continuing_line]
    pushed          \* the strings given to push_str so far, in order

passVars == <<world, opts, multi, todo, aborted, type_names, prim_names, dtor_funcs,
              resources, names, renamed_interfaces, needs_string, gen_world, gsrc,
              isrc, cur, files, return_pointer_area, needs_union>>
sigVars == <<sig_in, sig_out>>
cvVars == <<cv_in, cv_core, cv_out, cv_pc>>
fnVars == <<fn_in, fb>>
srcVars == <<out, pushed>>
vars == <<passVars, sigVars, cvVars, fnVars, srcVars>>

-----------------------------------------------------------------------------
(* wit_parser::Type: a primitive, or Type::Id(n).  NoTy is Option::None.    *)

Prim(s) == [k |-> s, id |-> 0]
Id(n) == [k |-> "Id", id |-> n]
NoTy == [k |-> "None", id |-> 0]

PrimKinds == {"Bool", "Char", "U8", "S8", "U16", "S16", "U32", "S32", "U64", "S64",
              "F32", "F64"}

\* TypeOwner
OwnerNone == 0
OwnerWorld == -1

TD(name, kind, owner, tys) == [name |-> name, kind |-> kind, owner |-> owner, tys |-> tys]

(* The resolved type arena (Resolve.types), the input of a pass.  Interface *)
(* 1 `my:pkg/types`, interface 2 `my:pkg/api` (uses types of 1), interface  *)
(* 3 `my:pkg/sigs` (uses a type of 4), interface 4 `my:pkg/util`; the world *)
(* `w` lives in another package, so its anonymous list<string> is another   *)
(* TypeId than interface 1's.                                               *)
Types == <<
    TD(<<"res">>, "Resource", 1, <<>>),                          \*  1
    TD(<<"rec">>, "Record", 1, <<Prim("U32"), Prim("String")>>), \*  2
    TD(<<"option", "rec">>, "Enum", 1, <<>>),                     \*  3 enum option-rec
    TD(<<>>, "List", OwnerNone, <<Prim("String")>>),             \*  4 list<string>
    TD(<<>>, "Option", OwnerNone, <<Id(2)>>),                    \*  5 option<rec>
    TD(<<>>, "Borrow", OwnerNone, <<Id(1)>>),                    \*  6 borrow<res>
    TD(<<>>, "Own", OwnerNone, <<Id(1)>>),                       \*  7 own<res>
    TD(<<"rec">>, "Type", 2, <<Id(2)>>),                         \*  8 use types.{rec}
    TD(<<"res">>, "Type", 2, <<Id(1)>>),                         \*  9 use types.{res}
    TD(<<>>, "Borrow", OwnerNone, <<Id(9)>>),                    \* 10 borrow<res>
    TD(<<>>, "List", OwnerNone, <<Id(8)>>),                      \* 11 list<rec>
    TD(<<>>, "Tuple", OwnerNone, <<Prim("U32"), Prim("U32")>>),  \* 12 tuple<u32,u32>
    TD(<<>>, "List", OwnerNone, <<Prim("String")>>),             \* 13 list<string> (world's package)
    TD(<<"fl">>, "Flags", 3, <<>>),                              \* 14
    TD(<<"en">>, "Enum", 3, <<>>),                               \* 15
    TD(<<"va">>, "Variant", 3, <<NoTy, Prim("String")>>),        \* 16
    TD(<<>>, "Option", OwnerNone, <<Prim("U32")>>),              \* 17 option<u32>
    TD(<<"ao">>, "Type", 3, <<Id(17)>>),                         \* 18 type ao = option<u32>
    TD(<<>>, "Result", OwnerNone, <<Prim("U32"), Prim("String")>>), \* 19 result<u32,string>
    TD(<<>>, "Result", OwnerNone, <<NoTy, Prim("String")>>),     \* 20 result<_,string>
    TD(<<>>, "Result", OwnerNone, <<Prim("U32"), NoTy>>),        \* 21 result<u32>
    TD(<<>>, "Result", OwnerNone, <<NoTy, NoTy>>),               \* 22 result
    TD(<<"ar">>, "Type", 3, <<Id(19)>>),                         \* 23 type ar = result<u32,string>
    TD(<<"af">>, "Type", 3, <<Id(14)>>),                         \* 24 type af = fl
    TD(<<>>, "Option", OwnerNone, <<Id(16)>>),                   \* 25 option<va>
    TD(<<"sr">>, "Record", 3, <<Prim("U8"), Id(15)>>),           \* 26 record sr {u8, en}
    TD(<<"wt">>, "Record", OwnerWorld, <<Prim("U8")>>),          \* 27 record wt {u8} of the world
    TD(<<"pt">>, "Record", 4, <<Prim("U8")>>),                   \* 28 record pt {u8}
    TD(<<"color">>, "Enum", 4, <<>>),                            \* 29 enum color
    TD(<<"pt">>, "Type", 3, <<Id(28)>>),                         \* 30 use util.{pt}
    \* 31..51: types of the function bodies generated one at a time (SpecFn);
    \* no interface of the worlds above lists them
    TD(<<>>, "List", OwnerNone, <<Id(6)>>),                      \* 31 list<borrow<res>>
    TD(<<>>, "List", OwnerNone, <<Id(7)>>),                      \* 32 list<own<res>>
    TD(<<>>, "Option", OwnerNone, <<Id(6)>>),                    \* 33 option<borrow<res>>
    TD(<<>>, "List", OwnerNone, <<Id(33)>>),                     \* 34 list<option<borrow<res>>>
    TD(<<"br">>, "Record", 1, <<Id(6), Prim("U32")>>),           \* 35 record br {borrow<res>, u32}
    TD(<<>>, "List", OwnerNone, <<Id(35)>>),                     \* 36 list<br>
    TD(<<>>, "List", OwnerNone, <<Id(31)>>),                     \* 37 list<list<borrow<res>>>
    TD(<<"lb">>, "Type", 1, <<Id(31)>>),                         \* 38 type lb = list<borrow<res>>
    TD(<<>>, "Tuple", OwnerNone, <<Prim("U32"), Id(6)>>),        \* 39 tuple<u32, borrow<res>>
    TD(<<>>, "List", OwnerNone, <<Id(39)>>),                     \* 40 list<tuple<u32, borrow<res>>>
    TD(<<"vb">>, "Variant", 1, <<NoTy, Id(6)>>),                 \* 41 variant vb {a, b(borrow<res>)}
    TD(<<>>, "List", OwnerNone, <<Id(41)>>),                     \* 42 list<vb>
    TD(<<>>, "Result", OwnerNone, <<Prim("U32"), Id(6)>>),       \* 43 result<u32, borrow<res>>
    TD(<<>>, "List", OwnerNone, <<Id(43)>>),                     \* 44 list<result<u32, borrow<res>>>
    TD(<<>>, "List", OwnerNone, <<Prim("U32")>>),                \* 45 list<u32>
    TD(<<"hnd">>, "Resource", 4, <<>>),                          \* 46 resource hnd
    TD(<<>>, "Borrow", OwnerNone, <<Id(46)>>),                   \* 47 borrow<hnd>
    TD(<<>>, "List", OwnerNone, <<Id(47)>>),                     \* 48 list<borrow<hnd>>
    TD(<<>>, "Own", OwnerNone, <<Id(46)>>),                      \* 49 own<hnd>
    TD(<<>>, "List", OwnerNone, <<Id(10)>>),                     \* 50 list<borrow<res>> through `use`
    TD(<<>>, "List", OwnerNone, <<Id(38)>>),                     \* 51 list<lb>
    \* 52..56: types of the features that are not implemented; only the worlds
    \* of TodoWorlds import them
    TD(<<"fu">>, "Future", OwnerWorld, <<Prim("U32")>>),         \* 52 type fu = future<u32>
    TD(<<>>, "Stream", OwnerNone, <<Prim("U8")>>),               \* 53 stream<u8>
    TD(<<"ws">>, "Record", OwnerWorld, <<Id(53)>>),              \* 54 record ws {stream<u8>}
    TD(<<>>, "ErrorContext", OwnerNone, <<>>),                   \* 55 error-context
    TD(<<"ec">>, "Type", OwnerWorld, <<Id(55)>>),                \* 56 type ec = error-context
    \* 57..58: a block inside a block that has written a statement (SpecFn)
    TD(<<>>, "Tuple", OwnerNone, <<Id(6), Id(33)>>),             \* 57 tuple<borrow<res>, option<borrow<res>>>
    TD(<<>>, "List", OwnerNone, <<Id(57)>>),                     \* 58 list<57>
    \* 59..63: variants whose cases share a slot of another core type; only
    \* the worlds of CastWorlds import them
    TD(<<"vf">>, "Variant", OwnerWorld, <<Prim("F32"), Prim("U32")>>), \* 59 variant vf {a(f32), b(u32)}
    TD(<<"vd">>, "Variant", OwnerWorld, <<Prim("F64"), Prim("U64")>>), \* 60 variant vd {a(f64), b(u64)}
    TD(<<"vm">>, "Variant", OwnerWorld, <<Prim("F32"), Prim("U64")>>), \* 61 variant vm {a(f32), b(u64)}
    TD(<<"vs">>, "Variant", OwnerWorld, <<Prim("F32"), Prim("String"), Prim("U64")>>), \* 62 variant vs {a(f32), b(string), c(u64)}
    TD(<<"vi">>, "Variant", OwnerWorld, <<Prim("U32"), Prim("U64")>>), \* 63 variant vi {a(u32), b(u64)}
    \* 64: a dispatch inside the later arm of a dispatch (SpecFn)
    TD(<<>>, "Result", OwnerNone, <<Prim("U32"), Id(33)>>)       \* 64 result<u32, option<borrow<res>>>
>>

TypeIds == DOMAIN Types

Handle(k) == k \in {"Own", "Borrow"}

\* a function: its docs are present for the functions named in Documented
FN(name, params, result) == [name |-> name, params |-> params, result |-> result]

(* Resolve's functions.  1-2 belong to interface 1, 3 to interface 2,       *)
(* 4-9 to interface 3, 10 is a world-level import, 11 a world-level export, *)
(* 12-16 are world-level functions of the worlds of CastWorlds, 17 and 18   *)
(* belong to the inline interfaces 5 and 6.                                 *)
Funcs == <<
    FN(<<"f1">>, <<Id(6)>>, Id(5)),              \*  1 f1: func(r: borrow<res>) -> option<rec>
    FN(<<"f2">>, <<Id(4)>>, Id(7)),              \*  2 f2: func(l: list<string>) -> own<res>
    FN(<<"g1">>, <<Id(10), Id(11)>>, Id(12)),    \*  3 g1: func(borrow<res>, list<rec>) -> tuple<u32,u32>
    FN(<<"s1">>, <<Prim("U32")>>, Id(18)),       \*  4 s1: func(u32) -> ao
    FN(<<"s2">>, <<>>, Id(23)),                  \*  5 s2: func() -> ar
    FN(<<"s3">>, <<Id(24)>>, Id(15)),            \*  6 s3: func(af) -> en
    FN(<<"s4">>, <<Id(25)>>, NoTy),              \*  7 s4: func(option<va>)
    FN(<<"s5">>, <<Id(26)>>, Id(20)),            \*  8 s5: func(sr) -> result<_,string>
    FN(<<"s6">>, <<>>, Id(21)),                  \*  9 s6: func() -> result<u32>
    FN(<<"h1">>, <<Id(13), Id(27)>>, Prim("U32")), \* 10 h1: func(list<string>, wt) -> u32
    FN(<<"h2">>, <<Prim("S8")>>, Id(13)),        \* 11 h2: func(s8) -> list<string>
    FN(<<"c1">>, <<Id(59)>>, NoTy),              \* 12 c1: func(vf)
    FN(<<"c2">>, <<Id(60)>>, NoTy),              \* 13 c2: func(vd)
    FN(<<"c3">>, <<Id(61)>>, NoTy),              \* 14 c3: func(vm)
    FN(<<"c4">>, <<Id(62)>>, NoTy),              \* 15 c4: func(vs)
    FN(<<"c5">>, <<Id(63)>>, NoTy),              \* 16 c5: func(vi)
    FN(<<"run">>, <<Prim("U32")>>, Prim("U32")), \* 17 run: func(u32) -> u32
    FN(<<"run">>, <<Prim("U32")>>, Prim("U32"))  \* 18 run: func(u32) -> u32
>>

FuncIds == DOMAIN Funcs

\* the functions that carry a doc comment (Function.docs)
Documented == {1, 4, 11}

\* Resolve.packages: [namespace, name, version] (version <<>>: none)
Packages == << [namespace |-> <<"my">>, name |-> <<"pkg">>, version |-> <<>>],
               [namespace |-> <<"my">>, name |-> <<"app">>, version |-> <<>>] >>

\* Resolve.interfaces: the named types an interface owns, and its functions
Interfaces == <<
    [name |-> <<"types">>, package |-> 1, types |-> <<1, 2, 3>>, functions |-> <<1, 2>>],
    [name |-> <<"api">>, package |-> 1, types |-> <<8, 9>>, functions |-> <<3>>],
    [name |-> <<"sigs">>, package |-> 1, types |-> <<14, 15, 16, 18, 23, 24, 26, 30>>,
     functions |-> <<4, 5, 6, 7, 8, 9>>],
    [name |-> <<"util">>, package |-> 1, types |-> <<28, 29>>, functions |-> <<>>],
    \* 5, 6: interfaces written inline in a world (`import n: interface { .. }`)
    [name |-> <<>>, package |-> 2, types |-> <<>>, functions |-> <<17>>],
    [name |-> <<>>, package |-> 2, types |-> <<>>, functions |-> <<18>>] >>

InterfaceIds == DOMAIN Interfaces

\* The interfaces whose types an interface refers to (`use`).
Deps(i) == CASE i = 2 -> {1} [] i = 3 -> {4} [] OTHER -> {}

\* Resolve.worlds[world].name
WorldName == <<"w">>

-----------------------------------------------------------------------------
(* Helpers on finite maps (HashMap) and sequences.                          *)

EmptyMap == [x \in {} |-> 0]
Put(f, k, v) == [x \in DOMAIN f \cup {k} |-> IF x = k THEN v ELSE f[x]]
Retain(f, S) == [x \in DOMAIN f \cap S |-> f[x]]
Range(s) == {s[i] : i \in DOMAIN s}
Contains(s, x) == \E i \in DOMAIN s : s[i] = x
Front(s) == SubSeq(s, 1, Len(s) - 1)

-----------------------------------------------------------------------------
(* wit_parser::LiveTypes: the types reachable from a set of roots, each     *)
(* after the types it refers to (add_type_id inserts an id once its         *)
(* children are in).  A sequence without repetition stands for the IndexSet.*)

\* nothing is left to add to a set that holds every type
Complete(live) == Len(live) = Len(Types)

RECURSIVE AddTypeId(_, _), AddTypes(_, _)
AddTypeId(live, id) ==
    IF Contains(live, id) THEN live
    ELSE LET below == IF Types[id].kind = "Resource" THEN live
                      ELSE AddTypes(live, Types[id].tys)
         IN  IF Contains(below, id) THEN below ELSE Append(below, id)

AddTypes(live, tys) ==
    IF tys = <<>> \/ Complete(live) THEN live
    ELSE LET t == Head(tys)
         IN  AddTypes(IF t.k = "Id" THEN AddTypeId(live, t.id) ELSE live, Tail(tys))

RECURSIVE AddTypeIds(_, _)
AddTypeIds(live, ids) ==
    IF ids = <<>> \/ Complete(live) THEN live
    ELSE AddTypeIds(AddTypeId(live, Head(ids)), Tail(ids))

AddFunc(live, f) == AddTypes(AddTypes(live, Funcs[f].params), <<Funcs[f].result>>)

RECURSIVE AddFuncs(_, _)
AddFuncs(live, fs) ==
    IF fs = <<>> \/ Complete(live) THEN live
    ELSE AddFuncs(AddFunc(live, Head(fs)), Tail(fs))

AddInterface(live, i) ==
    AddFuncs(AddTypeIds(live, Interfaces[i].types), Interfaces[i].functions)

RECURSIVE AddInterfaces(_, _)
AddInterfaces(live, is) ==
    IF is = <<>> \/ Complete(live) THEN live
    ELSE AddInterfaces(AddInterface(live, Head(is)), Tail(is))

\* wit_bindgen_core::dealias: follow `type a = b` links to the defining type
RECURSIVE Dealias(_)
Dealias(id) ==
    IF Types[id].kind = "Type" /\ Types[id].tys[1].k = "Id"
    THEN Dealias(Types[id].tys[1].id) ELSE id

-----------------------------------------------------------------------------
(* World keys and the world's items.                                        *)

KeyName(n) == [kind |-> "Name", id |-> 0, name |-> n]
KeyInterface(i) == [kind |-> "Interface", id |-> i, name |-> <<>>]
NoKey == [kind |-> "None", id |-> 0, name |-> <<>>]

\* Resolve::name_world_key: the name, or `ns:pkg/iface` for an interface id
NameWorldKey(key) ==
    IF key.kind = "Interface"
    THEN [qualified |-> TRUE,
          toks |-> Packages[Interfaces[key.id].package].namespace
                   \o Packages[Interfaces[key.id].package].name
                   \o Interfaces[key.id].name]
    ELSE [qualified |-> FALSE, toks |-> key.name]

-----------------------------------------------------------------------------
(* Naming: lib.rs:722-908 and 1568-1589.                                    *)

RECURSIVE is_prim_type_id(_)
is_prim_type_id(id) ==
    LET is_prim_type(ty) == IF ty.k = "Id" THEN is_prim_type_id(ty.id) ELSE TRUE
    IN  CASE Types[id].kind \in {"List", "Option", "Type"} -> is_prim_type(Types[id].tys[1])
          [] Types[id].kind = "Tuple" ->
                \A i \in DOMAIN Types[id].tys : is_prim_type(Types[id].tys[i])
          [] OTHER -> FALSE

PrimTyName(k) ==
    CASE k = "Bool" -> "bool" [] k = "Char" -> "char32"
      [] k = "U8" -> "u8" [] k = "S8" -> "s8" [] k = "U16" -> "u16" [] k = "S16" -> "s16"
      [] k = "U32" -> "u32" [] k = "S32" -> "s32" [] k = "U64" -> "u64" [] k = "S64" -> "s64"
      [] k = "F32" -> "f32" [] k = "F64" -> "f64" [] k = "String" -> "string"
      [] k = "None" -> "void"

TupleTok(n) ==
    CASE n = 0 -> "tuple0" [] n = 1 -> "tuple1" [] n = 2 -> "tuple2" [] n = 3 -> "tuple3"
      [] OTHER -> "tupleN"

\* the anonymous kinds push_ty_name has no encoding for (unimplemented!/todo!)
NoEncoding == {"Record", "Resource", "Flags", "Enum", "Variant", "Future", "Stream",
               "ErrorContext"}

RECURSIVE push_ty_name(_), PushTyNames(_)
push_ty_name(ty) ==
    IF ty.k # "Id" THEN <<PrimTyName(ty.k)>>
    ELSE LET d == Types[ty.id]
         IN  IF d.name # <<>> THEN d.name
             ELSE CASE d.kind = "Type" -> push_ty_name(d.tys[1])
                    [] d.kind = "Tuple" -> <<TupleTok(Len(d.tys))>> \o PushTyNames(d.tys)
                    [] d.kind = "Option" -> <<"option">> \o push_ty_name(d.tys[1])
                    [] d.kind = "Result" ->
                          <<"result">> \o push_ty_name(d.tys[1]) \o push_ty_name(d.tys[2])
                    [] d.kind = "List" -> <<"list">> \o push_ty_name(d.tys[1])
                    [] d.kind = "Own" -> <<"own">> \o push_ty_name(d.tys[1])
                    [] d.kind = "Borrow" -> <<"borrow">> \o push_ty_name(d.tys[1])
                    [] OTHER -> <<"unimplemented">>

PushTyNames(tys) ==
    IF tys = <<>> THEN <<>> ELSE push_ty_name(Head(tys)) \o PushTyNames(Tail(tys))

\* whether push_ty_name(Type::Id(id)) panics on the way
RECURSIVE Unencodable(_)
Unencodable(id) ==
    LET d == Types[id]
    IN  /\ d.name = <<>>
        /\ \/ d.kind \in NoEncoding
           \/ \E i \in DOMAIN d.tys : d.tys[i].k = "Id" /\ Unencodable(d.tys[i].id)

Renamed(key) == \E r \in renamed_interfaces : r.key = key
RenameOf(key) == (CHOOSE r \in renamed_interfaces : r.key = key).to

pkg_has_multiple_versions(pkg) ==
    \E p \in DOMAIN Packages :
        /\ Packages[p].namespace = pkg.namespace
        /\ Packages[p].name = pkg.name
        /\ Packages[p].version # pkg.version

\* interface_identifier (lib.rs:860-908); the first definition never looks
\* at the rename table
interface_identifierPlain(key, in_export) ==
    IF key.kind = "Name" THEN key.name
    ELSE (IF in_export THEN <<"exports">> ELSE <<>>)
         \o Packages[Interfaces[key.id].package].namespace
         \o Packages[Interfaces[key.id].package].name
         \o Interfaces[key.id].name
interface_identifier(key, in_export) ==
    IF Renamed(key)
    THEN (IF in_export /\ key.kind = "Interface" THEN <<"exports">> ELSE <<>>) \o RenameOf(key)
    ELSE IF key.kind = "Name" THEN key.name
    ELSE LET iface == Interfaces[key.id]
             pkg == Packages[iface.package]
         IN  (IF in_export THEN <<"exports">> ELSE <<>>)
             \o pkg.namespace \o pkg.name
             \o (IF pkg_has_multiple_versions(pkg) THEN pkg.version ELSE <<>>)
             \o iface.name

\* owner_namespace: <<"!">> stands for the unreachable!() arms
owner_namespace(c, id) ==
    LET owner == Types[id].owner
    IN  CASE owner > 0 /\ c.iface = owner -> interface_identifier(c.key, ~c.in_import)
          [] owner > 0 /\ c.iface # owner -> <<"!">>
          [] owner = OwnerWorld /\ c.iface = 0 -> gen_world
          [] owner = OwnerWorld /\ c.iface # 0 -> <<"!">>
          [] owner = OwnerNone /\ c.iface # 0 -> interface_identifier(c.key, ~c.in_import)
          [] OTHER -> gen_world

\* gen_type_name: the CTypeNameInfo and the encoded name
gen_type_name(id) ==
    [named |-> Types[id].name # <<>>,
     is_prim |-> Types[id].name = <<>> /\ is_prim_type_id(id),
     encoded |-> push_ty_name(Id(id))]

-----------------------------------------------------------------------------
(* Output buffers (struct Source, lib.rs:3410-3455) and the state the naming *)
(* code works on: the registries of Pascal, the buffers and the context of   *)
(* the InterfaceGenerator in use, and the panic raised, if any.              *)

EmptySource == [h_defs |-> <<>>, h_fns |-> <<>>, h_helpers |-> <<>>, c_defs |-> <<>>,
                c_fns |-> <<>>, c_helpers |-> <<>>, c_adapters |-> <<>>]

\* Source::append
SourceAppend(a, b) == [buf \in DOMAIN a |-> a[buf] \o b[buf]]

\* an emitted fragment: what it is, the identifier it declares or uses, and
\* the type it was emitted for (0: none)
It(op, name, ty) == [op |-> op, name |-> name, ty |-> ty, fn |-> 0]

\* a fragment emitted for a function (fn: the function; ty: 0)
ItF(op, name, f) == [op |-> op, name |-> name, ty |-> 0, fn |-> f]

Emit(g, buf, item) == [g EXCEPT !.src[buf] = Append(@, item)]
Panic(g, why) == IF g.abort = "none" THEN [g EXCEPT !.abort = why] ELSE g

\* no interface: InterfaceGenerator.interface = None
NoCur == [in_import |-> TRUE, iface |-> 0, key |-> NoKey]

\* Pascal::push_type_name's result for a type (lib.rs:582-611)
PascalPrim(k) ==
    CASE k = "Bool" -> "boolean" [] k = "Char" -> "uint32" [] k = "U8" -> "byte"
      [] k = "S8" -> "int8" [] k = "U16" -> "uint16" [] k = "S16" -> "int16"
      [] k = "U32" -> "uint32" [] k = "S32" -> "int32" [] k = "U64" -> "uint64"
      [] k = "S64" -> "int64" [] k = "F32" -> "single" [] k = "F64" -> "double"

type_name(tn, ty) ==
    CASE ty.k = "String" -> gen_world \o <<"string", "t">>
      [] ty.k = "Id" -> IF ty.id \in DOMAIN tn THEN tn[ty.id] ELSE <<"!">>
      [] OTHER -> <<PascalPrim(ty.k)>>

\* the effects of push_type_name: needs_string, or the panic of a missing name
PrintTy(g, ty) ==
    CASE g.abort # "none" -> g
      [] ty.k = "String" -> [g EXCEPT !.needs_string = TRUE]
      [] ty.k = "Id" /\ ty.id \notin DOMAIN g.type_names ->
            Panic(g, "failed to find type name")
      [] OTHER -> g

RECURSIVE PrintTys(_, _)
PrintTys(g, tys) ==
    IF tys = <<>> THEN g
    ELSE PrintTys(IF Head(tys) = NoTy THEN g ELSE PrintTy(g, Head(tys)), Tail(tys))

\* a typedef of type_names[id] whose body prints the types tys
Decl(g, id, tys) == PrintTys(Emit(g, "h_defs", It("type", g.type_names[id], id)), tys)

autodrop_enabled == opts.autodrop_borrows

\* type_resource (lib.rs:1062-1241), ns being owner_namespace(..)
TypeResourceIn(g, id, ns) ==
    LET snake == Types[id].name
        own == ns \o <<"own">> \o snake \o <<"t">>
        borrow == ns \o <<"borrow">> \o snake \o <<"t">>
        Drops(x) == Emit(Emit(x, "h_helpers", It("drop_own", ns \o snake, id)),
                         "c_helpers", It("drop_fn", ns \o snake, id))
        AutoDrop(x) == IF autodrop_enabled
                       THEN Emit(Emit(x, "h_helpers", It("drop_borrow", ns \o snake, id)),
                                 "c_helpers", It("drop_borrow", ns \o snake, id))
                       ELSE x
        Imported(x) == Emit(Emit(AutoDrop(Emit(x, "h_defs", It("type", borrow, id))),
                                 "h_helpers", It("borrow_conv", ns \o snake, id)),
                            "c_helpers", It("borrow_conv", ns \o snake, id))
        Exported(x) == Emit(Emit(Emit(Emit(x, "h_defs", It("struct", g.type_names[id], id)),
                                      "h_defs", It("type", borrow, id)),
                                 "h_helpers", It("new_rep_dtor", ns \o snake, id)),
                            "c_helpers", It("new_rep_dtor", ns \o snake, id))
        Register(x) == [x EXCEPT !.resources =
                           Put(@, id, [own |-> own, borrow |-> borrow,
                                       direction |-> IF g.in_import THEN "Import" ELSE "Export",
                                       drop_fn |-> <<"", "", "wasm", "import">> \o ns \o snake
                                                   \o <<"drop">>])]
    IN  CASE ns = <<"!">> -> Panic(g, "unreachable")
          [] ~g.in_import /\ g.iface = 0 ->
                Panic(Emit(g, "h_helpers", It("drop_own", ns \o snake, id)),
                      "unimplemented: resource exports from worlds")
          [] g.in_import -> Register(Imported(Emit(Drops(g), "h_defs", It("type", own, id))))
          [] OTHER -> Register(Exported(Emit(Drops(g), "h_defs", It("type", own, id))))

type_resource(g, id) == TypeResourceIn(g, id, owner_namespace(g, id))

\* InterfaceGenerator::define_type: type_record .. type_error_context
\* (lib.rs:1048-1060, 1243-1445)
define_type(g, id) ==
    LET d == Types[id]
    IN  CASE g.abort # "none" -> g
          [] d.kind = "Resource" -> type_resource(g, id)
          [] d.kind = "Type" ->
                IF Types[Dealias(id)].kind = "Resource" THEN g ELSE Decl(g, id, d.tys)
          [] d.kind \in {"Future", "Stream", "ErrorContext"} -> Panic(g, "todo")
          [] OTHER -> Decl(g, id, d.tys)

\* AnonymousTypeGenerator::define_anonymous_type (lib.rs:1448-1566)
define_anonymous_type(g, id) ==
    LET d == Types[id]
    IN  CASE g.abort # "none" -> g
          [] Handle(d.kind) ->
                IF Dealias(d.tys[1].id) \in DOMAIN g.resources
                THEN Emit(g, "h_defs", It("type", g.type_names[id], id))
                ELSE Panic(Emit(g, "h_defs", It("type", g.type_names[id], id)),
                           "no resource info")
          [] d.kind \in {"Tuple", "Option", "Result", "List"} -> Decl(g, id, d.tys)
          [] OTHER -> Panic(g, "todo")

\* the create helper of define_constructor, after its parameter types are printed
Constructor(g1, id) ==
    IF g1.abort # "none" THEN g1
    ELSE Emit(Emit(g1, "h_helpers", It("create", Front(g1.type_names[id]), id)),
              "c_helpers", It("create", Front(g1.type_names[id]), id))

\* define_constructor (lib.rs:1660-1779)
define_constructor(g, id) ==
    CASE g.abort # "none" -> g
      [] Types[id].kind \in {"Record", "Tuple", "List"} ->
            Constructor(PrintTys(g, Types[id].tys), id)
      [] Types[id].kind \in {"Future", "Stream", "ErrorContext"} -> Panic(g, "todo")
      [] OTHER -> g

\* free (lib.rs:1882-1907)
free(g, ty, for) ==
    CASE ty.k = "Id" ->
            IF ty.id \in DOMAIN g.dtor_funcs
            THEN Emit(g, "c_helpers", It("call", g.dtor_funcs[ty.id], for))
            ELSE g
      [] ty.k = "String" ->
            Emit(g, "c_helpers", It("call", gen_world \o <<"string", "free">>, for))
      [] OTHER -> g

RECURSIVE FreeAll(_, _, _)
FreeAll(g, tys, for) ==
    IF tys = <<>> THEN g ELSE FreeAll(free(g, Head(tys), for), Tail(tys), for)

\* the `case i: begin .. end` arms of a variant's destructor
RECURSIVE FreeCases(_, _, _)
FreeCases(g, tys, for) ==
    IF tys = <<>> THEN g
    ELSE FreeCases(IF Head(tys) = NoTy THEN g
                   ELSE Emit(free(Emit(g, "c_helpers", It("case_begin", <<>>, for)),
                                  Head(tys), for),
                             "c_helpers", It("case_end", <<>>, for)),
                   Tail(tys), for)

\* the statements of a destructor's body
DtorBody(g, id) ==
    LET d == Types[id]
        E(x, op) == Emit(x, "c_helpers", It(op, <<>>, id))
    IN  CASE d.kind = "Type" -> free(g, d.tys[1], id)
          [] d.kind \in {"Record", "Tuple"} -> FreeAll(g, d.tys, id)
          [] d.kind = "List" ->
                E(E(free(E(E(g, "list_len"), "for"), d.tys[1], id), "end_for"), "freemem")
          [] d.kind = "Variant" -> E(FreeCases(E(g, "case"), d.tys, id), "end_case")
          [] d.kind = "Option" -> E(free(E(g, "if_some"), d.tys[1], id), "end_if")
          [] d.kind = "Result" ->
                LET a == E(g, "if_not_err")
                    b == IF d.tys[1] = NoTy THEN a ELSE free(a, d.tys[1], id)
                    c == IF d.tys[2] = NoTy THEN b ELSE free(E(b, "else"), d.tys[2], id)
                IN  E(c, "end_if")
          [] Handle(d.kind) -> free(g, d.tys[1], id)
          [] OTHER -> g

\* String::insert_str at an item position
InsertAt(s, pos, items) == SubSeq(s, 1, pos) \o items \o SubSeq(s, pos + 1, Len(s))

\* the end of define_dtor: the variable section is inserted; a destructor
\* whose body is empty is taken back, another is closed and registered
\* (lib.rs:1862-1879)
DtorEndKeepsDecl(g3, id, h_helpers_start, c_helpers_start, c_helpers_var_section_start, c_helpers_body_start) ==
    LET var_section == IF Types[id].kind = "List" THEN <<It("var", <<>>, id)>> ELSE <<>>
        inserted == InsertAt(g3.src.c_helpers, c_helpers_var_section_start, var_section)
    IN  CASE g3.abort # "none" -> g3
          [] c_helpers_body_start = Len(inserted) ->
                [g3 EXCEPT !.src.c_helpers = SubSeq(inserted, 1, c_helpers_start)]
          [] OTHER ->
                [g3 EXCEPT !.src.c_helpers = Append(inserted, It("end", <<>>, id)),
                           !.dtor_funcs = Put(@, id, Front(g3.type_names[id]) \o <<"free">>)]
DtorEnd(g3, id, h_helpers_start, c_helpers_start, c_helpers_var_section_start, c_helpers_body_start) ==
    LET var_section == IF Types[id].kind = "List" THEN <<It("var", <<>>, id)>> ELSE <<>>
        inserted == InsertAt(g3.src.c_helpers, c_helpers_var_section_start, var_section)
    IN  CASE g3.abort # "none" -> g3
          [] c_helpers_body_start = Len(inserted) ->
                [g3 EXCEPT !.src.c_helpers = SubSeq(inserted, 1, c_helpers_start),
                           !.src.h_helpers = SubSeq(@, 1, h_helpers_start)]
          [] OTHER ->
                [g3 EXCEPT !.src.c_helpers = Append(inserted, It("end", <<>>, id)),
                           !.dtor_funcs = Put(@, id, Front(g3.type_names[id]) \o <<"free">>)]

\* the body of define_dtor, g2 being the state after `begin` (lib.rs:1805-1860)
DtorMiddle(g2, id, h_helpers_start, c_helpers_start, c_helpers_var_section_start) ==
    IF Types[id].kind \in {"Future", "Stream", "ErrorContext"} THEN Panic(g2, "todo")
    ELSE DtorEnd(DtorBody(IF Types[id].kind = "List"
                          THEN PrintTy(g2, Types[id].tys[1]) ELSE g2, id),
                 id, h_helpers_start, c_helpers_start, c_helpers_var_section_start,
                 Len(g2.src.c_helpers))

\* the head of define_dtor, g1 being the state after it (lib.rs:1789-1803)
DtorHead(g1, id, h_helpers_start, c_helpers_start) ==
    DtorMiddle(Emit(g1, "c_helpers", It("begin", <<>>, id)), id, h_helpers_start,
               c_helpers_start, Len(g1.src.c_helpers))

\* define_dtor (lib.rs:1781-1880)
define_dtor(g, id) ==
    IF g.abort # "none" THEN g
    ELSE DtorHead(Emit(Emit(g, "h_helpers", It("free_decl", Front(g.type_names[id]), id)),
                       "c_helpers", It("free_head", Front(g.type_names[id]), id)),
                  id, Len(g.src.h_helpers), Len(g.src.c_helpers))

\* type_names.insert followed by assert!(prev.is_none())
InsertName(g, ty, name) ==
    IF ty \in DOMAIN g.type_names
    THEN Panic([g EXCEPT !.type_names = Put(@, ty, name)], "assert prev.is_none")
    ELSE [g EXCEPT !.type_names = Put(@, ty, name)]

\* define_live_types' test for a type that was named before (lib.rs:1608)
AlreadyNamedNever(g, ty) == FALSE
AlreadyNamed(g, ty) == ty \in DOMAIN g.type_names

\* whether a primitive-only anonymous name was declared before (lib.rs:1626-1627)
PrimDefinedNever(g, name) == FALSE
PrimDefined(g, name) == name \in g.prim_names

\* the namespace of an anonymous type's name (lib.rs:1623-1631)
AnonNamespaceOwner(g, ty, is_prim) == owner_namespace(g, ty)
AnonNamespace(g, ty, is_prim) == IF is_prim THEN gen_world ELSE owner_namespace(g, ty)

\* a named type: its name, then its definition (lib.rs:1612-1620)
DefineNamed(g, ty, info, ns) ==
    IF ns = <<"!">> THEN Panic(g, "unreachable")
    ELSE define_dtor(define_constructor(
             define_type(InsertName(g, ty, ns \o info.encoded \o <<"t">>), ty), ty), ty)

\* an anonymous type whose name is in: its definition, unless the name was
\* declared before or the type is a handle to the resource itself
\* (lib.rs:1639-1656)
DefineAnonBody(anon, ty, defined) ==
    CASE anon.abort # "none" \/ defined -> anon
      [] Handle(Types[ty].kind) /\ Dealias(Types[ty].tys[1].id) = Types[ty].tys[1].id -> anon
      [] OTHER -> define_dtor(define_constructor(define_anonymous_type(anon, ty), ty), ty)

\* an anonymous type (lib.rs:1621-1638)
DefineAnon(g, ty, info, name) ==
    DefineAnonBody(InsertName([g EXCEPT !.prim_names =
                                  IF info.is_prim THEN @ \cup {name} ELSE @], ty, name),
                   ty, info.is_prim /\ PrimDefined(g, name))

DefineNew(g, ty, info) ==
    IF info.named THEN DefineNamed(g, ty, info, owner_namespace(g, ty))
    ELSE DefineAnon(g, ty, info,
                    AnonNamespace(g, ty, info.is_prim) \o info.encoded \o <<"t">>)

\* one iteration of define_live_types' loop (lib.rs:1607-1657)
DefineLiveType(g, ty) ==
    CASE g.abort # "none" -> g
      [] AlreadyNamed(g, ty) -> g
      [] Unencodable(ty) -> Panic(g, "unimplemented")
      [] OTHER -> DefineNew(g, ty, gen_type_name(ty))

RECURSIVE define_live_types(_, _)
define_live_types(g, live) ==
    IF live = <<>> \/ g.abort # "none" THEN g
    ELSE define_live_types(DefineLiveType(g, Head(live)), Tail(live))

-----------------------------------------------------------------------------
(* The signature classifier: enum Scalar (lib.rs:136-142), struct Return    *)
(* (lib.rs:123-126), return_single, classify_ret and print_sig.             *)

NoScalar == [tag |-> "None", a |-> NoTy, b |-> NoTy]
ScalarVoid == [tag |-> "Void", a |-> NoTy, b |-> NoTy]
OptionBool(ty) == [tag |-> "OptionBool", a |-> ty, b |-> NoTy]
ResultBool(ok, err) == [tag |-> "ResultBool", a |-> ok, b |-> err]
ScalarType(ty) == [tag |-> "Type", a |-> ty, b |-> NoTy]

\* Return: todo is the todo!() of a kind return_single does not handle
Ret(scalar, retptrs) == [scalar |-> scalar, retptrs |-> retptrs, todo |-> FALSE]

\* the retptrs of a flattened result<ok, err> (lib.rs:1015-1020)
ResultRetptrsErrFirst(ok, err) ==
    (IF err = NoTy THEN <<>> ELSE <<err>>) \o (IF ok = NoTy THEN <<>> ELSE <<ok>>)
ResultRetptrs(ok, err) ==
    (IF ok = NoTy THEN <<>> ELSE <<ok>>) \o (IF err = NoTy THEN <<>> ELSE <<err>>)

\* the flattened form of option<ty> (lib.rs:1005-1007)
OptionFlatWhole(ty, orig_ty) == Ret(OptionBool(ty), <<orig_ty>>)
OptionFlat(ty, orig_ty) == Ret(OptionBool(ty), <<ty>>)

\* the types returned by value: flags, enums and handles (lib.rs:993-996)
ByValueNoFlags(kind) == kind = "Enum" \/ Handle(kind)
ByValue(kind) == kind \in {"Flags", "Enum"} \/ Handle(kind)

\* whether option/result are unpacked (the `if sig_flattening` tests, lib.rs:1004, 1014)
UnpackAlways(sig_flattening) == TRUE
Unpack(sig_flattening) == sig_flattening

RECURSIVE return_single(_, _, _)
return_single(ty, orig_ty, sig_flattening) ==
    IF ty.k = "String" THEN Ret(NoScalar, <<orig_ty>>)
    ELSE IF ty.k # "Id" THEN Ret(ScalarType(orig_ty), <<>>)
    ELSE LET d == Types[ty.id]
         IN  CASE d.kind = "Type" -> return_single(d.tys[1], orig_ty, sig_flattening)
               [] ByValue(d.kind) -> Ret(ScalarType(orig_ty), <<>>)
               [] d.kind = "Option" /\ Unpack(sig_flattening) -> OptionFlat(d.tys[1], orig_ty)
               [] d.kind = "Result" /\ Unpack(sig_flattening) ->
                     Ret(ResultBool(d.tys[1], d.tys[2]), ResultRetptrs(d.tys[1], d.tys[2]))
               [] d.kind \in {"Future", "Stream", "ErrorContext", "Resource"} ->
                     [Ret(NoScalar, <<>>) EXCEPT !.todo = TRUE]
               [] OTHER -> Ret(NoScalar, <<orig_ty>>)

\* classify_ret (lib.rs:2277-2286); result is func.result
classify_ret(result, sig_flattening) ==
    IF result = NoTy THEN Ret(ScalarVoid, <<>>)
    ELSE return_single(result, result, sig_flattening)

\* print_sig's (is_function, ...) (lib.rs:2177-2187)
IsFunction(ret) == ret.scalar.tag \in {"OptionBool", "ResultBool", "Type"}

\* the type print_sig writes after the parameter list: boolean for the two
\* flattened forms, the type itself for a scalar (lib.rs:2180-2186)
SigRetType(ret) ==
    CASE ret.scalar.tag \in {"OptionBool", "ResultBool"} -> Prim("Bool")
      [] ret.scalar.tag = "Type" -> ret.scalar.a
      [] OTHER -> NoTy

\* the name of the i-th (from 0) out-parameter of a flattened result (lib.rs:2238-2244)
ResultRetptrNameSwapped(i, has_ok) == IF i = 0 /\ has_ok THEN "err" ELSE "ret"
ResultRetptrName(i, has_ok) == IF i = 0 /\ has_ok THEN "ret" ELSE "err"

\* print_sig's names of the out-parameters (lib.rs:2231-2254)
RetptrNames(ret) ==
    [j \in DOMAIN ret.retptrs |->
        IF ret.scalar.tag = "ResultBool" THEN ResultRetptrName(j - 1, ret.scalar.a # NoTy)
        ELSE IF Len(ret.retptrs) = 1 THEN "ret"
        ELSE "ret" \o ToString(j - 1)]

\* is_arg_by_pointer (lib.rs:3488-3508)
RECURSIVE is_arg_by_pointer(_)
is_arg_by_pointer(ty) ==
    CASE ty.k = "String" -> TRUE
      [] ty.k = "Id" ->
            LET d == Types[ty.id]
            IN  CASE d.kind = "Type" -> is_arg_by_pointer(d.tys[1])
                  [] d.kind \in {"Variant", "Option", "Result", "Tuple", "Record", "List"} -> TRUE
                  [] OTHER -> FALSE
      [] OTHER -> FALSE

-----------------------------------------------------------------------------
(* Symbols: c_func_name (lib.rs:910-936) and wit_bindgen_core::Ns.          *)

c_func_name(in_import, key, f) ==
    (IF key # NoKey THEN interface_identifier(key, ~in_import)
     ELSE (IF ~in_import THEN <<"exports">> ELSE <<>>) \o gen_world)
    \o Funcs[f].name

EmptyNs == [defined |-> {}, tmp |-> 0]

\* Ns::tmp: the name itself, or the name with the first free counter value
RECURSIVE NsTmpFrom(_, _, _)
NsTmpFrom(ns, name, ret) ==
    IF ret \in ns.defined
    THEN NsTmpFrom([ns EXCEPT !.tmp = @ + 1], name, name \o <<ToString(ns.tmp)>>)
    ELSE [ns |-> [ns EXCEPT !.defined = @ \cup {ret}], ret |-> ret]

NsTmp(ns, name) == NsTmpFrom(ns, name, name)

-----------------------------------------------------------------------------
(* Resolve::wasm_signature: the number of core results.  A component        *)
(* result that flattens to more than MaxFlatResults core values is returned *)
(* through a pointer.  The function `multi` is the input whose core         *)
(* signature is handed back with MultiArity results.                        *)

MaxFlatResults == 1
MultiArity == 2

Max(a, b) == IF a >= b THEN a ELSE b

RECURSIVE FlatCount(_), FlatSum(_), FlatMax(_)
FlatCount(ty) ==
    CASE ty = NoTy -> 0
      [] ty.k = "String" -> 2
      [] ty.k # "Id" -> 1
      [] OTHER ->
            LET d == Types[ty.id]
            IN  CASE d.kind = "Type" -> FlatCount(d.tys[1])
                  [] d.kind \in {"Record", "Tuple"} -> FlatSum(d.tys)
                  [] d.kind = "List" -> 2
                  [] d.kind \in {"Option", "Result", "Variant"} -> 1 + FlatMax(d.tys)
                  [] OTHER -> 1

FlatSum(tys) == IF tys = <<>> THEN 0 ELSE FlatCount(Head(tys)) + FlatSum(Tail(tys))
FlatMax(tys) == IF tys = <<>> THEN 0 ELSE Max(FlatCount(Head(tys)), FlatMax(Tail(tys)))

SigResults(f) ==
    IF f = multi THEN MultiArity
    ELSE IF FlatCount(Funcs[f].result) > MaxFlatResults THEN 0
    ELSE FlatCount(Funcs[f].result)

\* abi::guest_export_needs_post_return: the result owns a list or a string
RECURSIVE NeedsPostReturn(_)
NeedsPostReturn(ty) ==
    CASE ty.k = "String" -> TRUE
      [] ty.k = "Id" ->
            \/ Types[ty.id].kind = "List"
            \/ /\ Types[ty.id].kind \notin {"Resource", "Own", "Borrow"}
               /\ \E i \in DOMAIN Types[ty.id].tys : NeedsPostReturn(Types[ty.id].tys[i])
      [] OTHER -> FALSE

\* the expressions of the generated text
Var(name) == [node |-> "var", text |-> name, args |-> <<>>]
Lit(text) == [node |-> "lit", text |-> text, args |-> <<>>]
Bin(op, l, r) == [node |-> "bin", text |-> op, args |-> <<l, r>>]
CastTo(type, e) == [node |-> "cast", text |-> type, args |-> <<e>>]
\* `{type} {name} = {e};`
DeclInit(type, name, e) == [node |-> "decl_init", text |-> name, type |-> type, args |-> <<e>>]

-----------------------------------------------------------------------------
(* FunctionBindgen: the generator of one function body.  abi::call walks    *)
(* the function and hands the generator one instruction after another; the  *)
(* body is what the instructions leave in src.                              *)

\* InterfaceGenerator::contains_droppable_borrow (lib.rs:2343-2400), reg being
\* gen.resources
RECURSIVE contains_droppable_borrow(_, _, _)
contains_droppable_borrow(reg, in_import, ty) ==
    IF ty.k # "Id" THEN FALSE
    ELSE LET d == Types[ty.id]
         IN  CASE d.kind = "Borrow" ->
                     ~in_import /\ reg[Dealias(d.tys[1].id)].direction = "Import"
               [] d.kind = "Own" -> FALSE
               [] d.kind \in {"Resource", "Flags", "Enum"} -> FALSE
               [] d.kind \in {"Record", "Tuple", "Variant", "Option", "Result", "List", "Type"} ->
                     \E i \in DOMAIN d.tys : contains_droppable_borrow(reg, in_import, d.tys[i])
               [] OTHER -> FALSE

\* the condition of assert_no_droppable_borrows (lib.rs:2532-2542)
NoDroppableBorrowsAnywhere(reg, in_import, ty) == TRUE
NoDroppableBorrows(reg, in_import, ty) ==
    ~(~in_import /\ autodrop_enabled /\ contains_droppable_borrow(reg, in_import, ty))

\* the message of the panic (lib.rs:2537-2540), without its quotation marks
Unable == "Unable to autodrop borrows in list values, please disable autodrop"

\* Resolve::all_bits_valid, the answer of is_list_canonical (lib.rs:2586-2588):
\* only numbers, and aggregates of numbers, are valid in every bit pattern
RECURSIVE all_bits_valid(_)
all_bits_valid(ty) ==
    CASE ty.k \in {"U8", "S8", "U16", "S16", "U32", "S32", "U64", "S64", "F32", "F64"} -> TRUE
      [] ty.k # "Id" -> FALSE
      [] Types[ty.id].kind \in {"Type", "Record", "Tuple"} ->
            \A i \in DOMAIN Types[ty.id].tys : all_bits_valid(Types[ty.id].tys[i])
      [] OTHER -> FALSE

\* SizeAlign of the canonical ABI: [size, align] of a value in linear memory
AlignTo(n, a) == ((n + a - 1) \div a) * a
ElementInfo(size, align) == [size |-> size, align |-> align]

RECURSIVE SizeAlign(_), RecordLayout(_, _), PayloadLayout(_, _)
SizeAlign(ty) ==
    CASE ty = NoTy -> ElementInfo(0, 1)
      [] ty.k \in {"Bool", "U8", "S8"} -> ElementInfo(1, 1)
      [] ty.k \in {"U16", "S16"} -> ElementInfo(2, 2)
      [] ty.k \in {"U32", "S32", "F32", "Char"} -> ElementInfo(4, 4)
      [] ty.k \in {"U64", "S64", "F64"} -> ElementInfo(8, 8)
      [] ty.k = "String" -> ElementInfo(8, 4)
      [] OTHER ->
            LET d == Types[ty.id]
            IN  CASE d.kind = "Type" -> SizeAlign(d.tys[1])
                  [] d.kind = "List" -> ElementInfo(8, 4)
                  [] d.kind \in {"Own", "Borrow"} -> ElementInfo(4, 4)
                  [] d.kind \in {"Record", "Tuple"} -> RecordLayout(d.tys, ElementInfo(0, 1))
                  [] d.kind \in {"Option", "Result", "Variant"} ->
                        LET p == PayloadLayout(d.tys, ElementInfo(0, 1))
                        IN  ElementInfo(AlignTo(AlignTo(1, p.align) + p.size, p.align), p.align)
                  [] OTHER -> ElementInfo(1, 1)

\* SizeAlign::record: the fields one after another, each at its alignment
RecordLayout(tys, acc) ==
    IF tys = <<>> THEN ElementInfo(AlignTo(acc.size, acc.align), acc.align)
    ELSE LET e == SizeAlign(Head(tys))
         IN  RecordLayout(Tail(tys), ElementInfo(AlignTo(acc.size, e.align) + e.size,
                                                 Max(acc.align, e.align)))

\* the largest payload of the cases of a variant
PayloadLayout(tys, acc) ==
    IF tys = <<>> THEN acc
    ELSE LET e == SizeAlign(Head(tys))
         IN  PayloadLayout(Tail(tys), ElementInfo(Max(acc.size, e.size), Max(acc.align, e.align)))

\* one instruction handed to Bindgen::emit, or one call of return_pointer,
\* push_block or finish_block
Inst(op, ty) == [op |-> op, ty |-> ty, n |-> 0, size |-> 0, align |-> 0, casts |-> <<>>]
InstN(op, ty, n) == [op |-> op, ty |-> ty, n |-> n, size |-> 0, align |-> 0, casts |-> <<>>]
ReturnPointer(info) == [op |-> "return_pointer", ty |-> 0, n |-> 0, size |-> info.size, align |-> info.align, casts |-> <<>>]

\* the core types a value is flattened to, the type two cases share a slot
\* in, and the cast from one core type to another
RECURSIVE FlatTypes(_), FlatAll(_), JoinedFlat(_)
FlatTypes(ty) ==
    CASE ty = NoTy -> <<>>
      [] ty.k = "String" -> <<"Pointer", "Length">>
      [] ty.k \in {"U64", "S64"} -> <<"I64">>
      [] ty.k = "F32" -> <<"F32">>
      [] ty.k = "F64" -> <<"F64">>
      [] ty.k # "Id" -> <<"I32">>
      [] OTHER ->
            LET d == Types[ty.id]
            IN  CASE d.kind = "Type" -> FlatTypes(d.tys[1])
                  [] d.kind \in {"Record", "Tuple"} -> FlatAll(d.tys)
                  [] d.kind = "List" -> <<"Pointer", "Length">>
                  [] d.kind \in {"Option", "Result", "Variant"} -> <<"I32">> \o JoinedFlat(d.tys)
                  [] OTHER -> <<"I32">>

FlatAll(tys) == IF tys = <<>> THEN <<>> ELSE FlatTypes(Head(tys)) \o FlatAll(Tail(tys))

join(a, b) ==
    CASE a = b -> a
      [] {a, b} = {"I32", "F32"} -> "I32"
      [] "Length" \in {a, b} /\ {a, b} \subseteq {"Length", "I32", "F32"} -> "Length"
      [] "Pointer" \in {a, b} /\ {a, b} \subseteq {"Pointer", "I32", "F32", "Length"} -> "Pointer"
      [] {a, b} \cap {"Pointer", "Length", "PointerOrI64"} # {} -> "PointerOrI64"
      [] OTHER -> "I64"

JoinTypes(xs, ys) ==
    [i \in 1..Max(Len(xs), Len(ys)) |->
        IF i > Len(xs) THEN ys[i] ELSE IF i > Len(ys) THEN xs[i] ELSE join(xs[i], ys[i])]

JoinedFlat(tys) ==
    IF tys = <<>> THEN <<>> ELSE JoinTypes(FlatTypes(Head(tys)), JoinedFlat(Tail(tys)))

Bitcast(op) == [op |-> op]
Sequence(first, second) == [op |-> "Sequence", first |-> first, second |-> second]
CoreName(t) ==
    CASE t = "Pointer" -> "P" [] t = "Length" -> "L" [] t = "PointerOrI64" -> "P64"
      [] OTHER -> t
castTo(from, to) ==
    CASE from = to -> Bitcast("None")
      [] from \notin {"I64", "Pointer"} /\ to = "PointerOrI64" ->
            Sequence(Bitcast(CoreName(from) \o "ToI64"), Bitcast("I64ToP64"))
      [] from = "PointerOrI64" /\ to \notin {"I64", "Pointer"} ->
            Sequence(Bitcast("P64ToI64"), Bitcast("I64To" \o CoreName(to)))
      [] OTHER -> Bitcast(CoreName(from) \o "To" \o CoreName(to))

\* Instruction::Bitcasts for a payload: its flat types cast to the types of
\* the slots it shares, or back; nothing if no slot differs
BitcastsOf(from, to) ==
    LET n == IF Len(from) < Len(to) THEN Len(from) ELSE Len(to)
        casts == [i \in 1..n |-> castTo(from[i], to[i])]
    IN  IF \A i \in 1..n : casts[i].op = "None" THEN <<>>
        ELSE <<[Inst("Bitcasts", 0) EXCEPT !.casts = casts]>>

\* Generator::lift and Generator::lower of abi.rs: the instructions that lift
\* (lower) one value, the bodies of the cases and of the list elements in
\* blocks before the instruction that uses them
RECURSIVE LiftInsts(_, _), LiftCases(_, _, _), LiftAll(_, _), LowerInsts(_, _), LowerCases(_, _, _), LowerAll(_, _)
\* mem: the value is read from memory (read_from_memory); otherwise it is
\* lifted from its flat core values
LiftInsts(ty, mem) ==
    CASE ty = NoTy -> <<>>
      [] ty.k = "String" -> <<Inst("StringLift", 0)>>
      [] ty.k # "Id" -> <<Inst("Convert", 0)>>
      [] OTHER ->
            LET d == Types[ty.id]
            IN  CASE d.kind = "Type" -> LiftInsts(d.tys[1], mem)
                  [] d.kind \in {"Own", "Borrow"} -> <<Inst("HandleLift", ty.id)>>
                  [] d.kind = "List" ->
                        IF all_bits_valid(d.tys[1]) THEN <<Inst("ListCanonLift", ty.id)>>
                        ELSE <<Inst("push_block", 0)>> \o LiftInsts(d.tys[1], TRUE)
                             \o <<InstN("finish_block", 0, 1), Inst("ListLift", ty.id)>>
                  [] d.kind \in {"Record", "Tuple"} ->
                        LiftAll(d.tys, mem) \o <<Inst("RecordLift", ty.id)>>
                  [] d.kind = "Option" ->
                        LiftCases(<<NoTy>> \o d.tys, mem, JoinedFlat(d.tys)) \o <<InstN("OptionLift", ty.id, 2)>>
                  [] d.kind = "Result" ->
                        LiftCases(d.tys, mem, JoinedFlat(d.tys)) \o <<InstN("ResultLift", ty.id, 2)>>
                  [] d.kind = "Variant" ->
                        LiftCases(d.tys, mem, JoinedFlat(d.tys)) \o <<InstN("VariantLift", ty.id, Len(d.tys))>>
                  [] d.kind \in {"Future", "Stream", "ErrorContext"} ->
                        <<Inst(d.kind \o "Lift", ty.id)>>
                  [] OTHER -> <<Inst("Convert", ty.id)>>

\* the arm of a case: its block ends with the payload as its one operand
LiftCases(tys, mem, joined) ==
    IF tys = <<>> THEN <<>>
    ELSE <<Inst("push_block", 0)>>
         \o (IF mem THEN <<>> ELSE BitcastsOf(joined, FlatTypes(Head(tys))))
         \o LiftInsts(Head(tys), mem)
         \o <<InstN("finish_block", 0, IF Head(tys) = NoTy THEN 0 ELSE 1)>>
         \o LiftCases(Tail(tys), mem, joined)

LiftAll(tys, mem) ==
    IF tys = <<>> THEN <<>> ELSE LiftInsts(Head(tys), mem) \o LiftAll(Tail(tys), mem)

\* mem: the value is written to memory (write_to_memory) and leaves no
\* operand; otherwise it is lowered to its flat core values
LowerInsts(ty, mem) ==
    CASE ty = NoTy -> <<>>
      [] ty.k = "String" -> <<Inst("StringLower", 0)>>
      [] ty.k # "Id" -> <<Inst("Convert", 0)>>
      [] OTHER ->
            LET d == Types[ty.id]
                joined == JoinedFlat(d.tys)
            IN  CASE d.kind = "Type" -> LowerInsts(d.tys[1], mem)
                  [] d.kind \in {"Own", "Borrow"} -> <<Inst("HandleLower", ty.id)>>
                  [] d.kind = "List" ->
                        IF all_bits_valid(d.tys[1]) THEN <<Inst("ListCanonLower", ty.id)>>
                        ELSE <<Inst("push_block", 0)>> \o LowerInsts(d.tys[1], TRUE)
                             \o <<InstN("finish_block", 0, 0), Inst("ListLower", ty.id)>>
                  [] d.kind \in {"Record", "Tuple"} ->
                        <<Inst("RecordLower", ty.id)>> \o LowerAll(d.tys, mem)
                  [] d.kind = "Option" ->
                        LowerCases(<<NoTy>> \o d.tys, mem, joined)
                        \o <<InstN("OptionLower", ty.id, 2)>>
                  [] d.kind = "Result" ->
                        LowerCases(d.tys, mem, joined) \o <<InstN("ResultLower", ty.id, 2)>>
                  [] d.kind = "Variant" ->
                        LowerCases(d.tys, mem, joined)
                        \o <<InstN("VariantLower", ty.id, Len(d.tys))>>
                  [] d.kind \in {"Future", "Stream", "ErrorContext"} ->
                        <<Inst(d.kind \o "Lower", ty.id)>>
                  [] OTHER -> <<Inst("Convert", ty.id)>>

\* the arm of a case: the name of its payload first, then the payload
LowerCases(tys, mem, joined) ==
    IF tys = <<>> THEN <<>>
    ELSE <<Inst("push_block", 0), Inst("VariantPayloadName", 0)>>
         \o LowerInsts(Head(tys), mem)
         \o (IF mem THEN <<>> ELSE BitcastsOf(FlatTypes(Head(tys)), joined))
         \o <<InstN("finish_block", 0, IF mem THEN 0 ELSE 1 + Len(joined))>>
         \o LowerCases(Tail(tys), mem, joined)

LowerAll(tys, mem) ==
    IF tys = <<>> THEN <<>> ELSE LowerInsts(Head(tys), mem) \o LowerAll(Tail(tys), mem)

MaxFlatParams == 16

\* abi::call for an imported function (LowerArgsLiftResults, lib.rs:2018-2025):
\* the arguments are lowered, through an area in memory if they flatten to
\* more than MaxFlatParams values; a result of more than MaxFlatResults
\* values comes back through a return pointer
CallImport(params, result) ==
    (IF FlatSum(params) > MaxFlatParams
     THEN <<ReturnPointer(RecordLayout(params, ElementInfo(0, 1)))>> ELSE <<>>)
    \o LowerAll(params, FlatSum(params) > MaxFlatParams)
    \o (IF FlatCount(result) > MaxFlatResults THEN <<ReturnPointer(SizeAlign(result))>> ELSE <<>>)
    \o <<Inst("CallWasm", 0)>>
    \o LiftInsts(result, FlatCount(result) > MaxFlatResults)
    \o <<InstN("Return", 0, IF result = NoTy THEN 0 ELSE 1)>>

\* abi::call for an exported function (LiftArgsLowerResults, lib.rs:2115-2122)
CallExport(params, result) ==
    LiftAll(params, FlatSum(params) > MaxFlatParams)
    \o <<Inst("CallInterface", 0)>>
    \o (IF FlatCount(result) > MaxFlatResults
        THEN <<ReturnPointer(SizeAlign(result))>> \o LowerInsts(result, TRUE)
             \o <<InstN("Return", 0, 1)>>
        ELSE LowerInsts(result, FALSE) \o <<InstN("Return", 0, FlatCount(result))>>)

call(in_import, params, result) ==
    IF in_import THEN CallImport(params, result) ELSE CallExport(params, result)


\* FunctionBindgen::new (lib.rs:2465-2488); area is gen.gen's
\* return_pointer_area_size and _align and needs_union its needs_union_*
\* flags, which the generator reaches through its gen reference; lifted is
\* what the handle lifts pushed on results and bitcasts what the Bitcasts did
NewFunctionBindgen(sig, area) ==
    [pc |-> 1, sig |-> sig, locals |-> EmptyNs, src |-> <<>>, block_storage |-> <<>>,
     blocks |-> <<>>, payloads |-> <<>>, ret_store_cnt |-> 0,
     import_return_pointer_area |-> ElementInfo(0, 0),
     borrows |-> <<>>, borrow_decls |-> <<>>, lifted |-> <<>>, bitcasts |-> <<>>,
     area |-> area, needs_union |-> {}, abort |-> "none"]

\* one statement of a body
Stmt(op, name, arg) == [op |-> op, name |-> name, arg |-> arg]
Write(b, st) == [b EXCEPT !.src = Append(@, st)]

\* the resource a handle type points to
ResourceOf(ty) == Types[ty].tys[1].id

\* HandleLift, first arm: a borrow of a resource registered as exported
\* (lib.rs:2706-2711)
ExportedBorrowNever(reg, ty) == FALSE
ExportedBorrow(reg, ty) ==
    Types[ty].kind = "Borrow" /\ reg[Dealias(ResourceOf(ty))].direction = "Export"

\* HandleLift, second arm: is the borrow to be dropped on return (lib.rs:2727-2728)
DroppedOnReturnAlways(in_import, ty) == Types[ty].kind = "Borrow"
DroppedOnReturn(in_import, ty) ==
    Types[ty].kind = "Borrow" /\ ~in_import /\ autodrop_enabled

\* the borrow is copied into a fresh local and recorded (lib.rs:2731-2737)
RecordBorrow(b, ty, tmp) ==
    [b EXCEPT !.locals = tmp.ns,
              !.borrow_decls = Append(@, Stmt("decl", tmp.ret, <<"int32", "t">>)),
              !.src = Append(@, Stmt("assign", tmp.ret, <<"op">>)),
              !.borrows = Append(@, [name |-> tmp.ret, ty |-> Dealias(ResourceOf(ty))])]

\* Pascal::char_type (lib.rs:568-574) as Instruction::StringLift calls it
\* (lib.rs:3049-3058)
EmitStringLiftAny(b) == b
EmitStringLift(b) ==
    IF opts.string_encoding = "CompactUTF16"
    THEN [b EXCEPT !.abort = "Compact UTF16 unsupported"]
    ELSE b

\* the instructions FunctionBindgen::emit has no arm for (lib.rs:3393)
Unrendered == {"FutureLift", "FutureLower", "StreamLift", "StreamLower",
               "ErrorContextLift", "ErrorContextLower"}

\* Instruction::HandleLift (lib.rs:2705-2741)
EmitHandleLift(reg, in_import, b, ty) ==
    IF Types[ty].kind = "Borrow" /\ Dealias(ResourceOf(ty)) \notin DOMAIN reg
    THEN [b EXCEPT !.abort = "no entry found for key"]
    ELSE IF ExportedBorrow(reg, ty)
    THEN [b EXCEPT !.lifted = Append(@, [form |-> "pointer_cast", ty |-> Dealias(ResourceOf(ty))])]
    ELSE LET wrapped == [b EXCEPT !.lifted = Append(@, [form |-> "handle", ty |-> ty])]
         IN  IF DroppedOnReturn(in_import, ty)
             THEN RecordBorrow(wrapped, ty, NsTmp(b.locals, <<"borrow">>))
             ELSE wrapped

\* Instruction::ListCanonLift and ListLift (lib.rs:3039-3076): the assertion
\* first, then ListLift takes the block of the element off blocks
EmitListLift(reg, in_import, b, inst) ==
    IF ~NoDroppableBorrows(reg, in_import, Id(inst.ty)) THEN [b EXCEPT !.abort = Unable]
    ELSE IF inst.op = "ListLift" THEN [b EXCEPT !.blocks = Front(@)]
    ELSE b

\* push_block and finish_block (lib.rs:2552-2561): a finished block gives
\* the buffer back to the block saved last; the first definition gives it
\* to the block saved first
EmitBlockOldest(b, inst) ==
    IF inst.op = "push_block"
    THEN [b EXCEPT !.block_storage = Append(@, b.src), !.src = <<>>]
    ELSE [b EXCEPT !.src = b.block_storage[1],
                   !.block_storage = Tail(@),
                   !.blocks = Append(@, [src |-> b.src,
                                         operands |-> [i \in 1..inst.n |-> Var("op")]])]
EmitBlock(b, inst) ==
    IF inst.op = "push_block"
    THEN [b EXCEPT !.block_storage = Append(@, b.src), !.src = <<>>]
    ELSE [b EXCEPT !.src = b.block_storage[Len(b.block_storage)],
                   !.block_storage = Front(@),
                   !.blocks = Append(@, [src |-> b.src,
                                         operands |-> [i \in 1..inst.n |-> Var("op")]])]

\* Pascal::perform_cast (lib.rs:633-676): the flags after the cast and the
\* text of the operand cast; the union a cast of floats goes through is
\* flagged, the other casts are conversions or nothing
UnionOf(bitcast) ==
    CASE bitcast \in {"I32ToF32", "I64ToF32"} -> <<"int32", "float">>
      [] bitcast \in {"F32ToI32", "F32ToI64"} -> <<"float", "int32">>
      [] bitcast = "I64ToF64" -> <<"int64", "double">>
      [] bitcast = "F64ToI64" -> <<"double", "int64">>
      [] OTHER -> <<>>
Through(union, op) == [node |-> "union", text |-> union, args |-> <<op>>]
Converted(type, op) == [node |-> "convert", text |-> type, args |-> <<op>>]
Cast(flags, text) == [flags |-> flags, text |-> text]

RECURSIVE perform_cast(_, _, _)
perform_cast(flags, op, bitcast) ==
    CASE bitcast.op = "Sequence" ->
            LET inner == perform_cast(flags, op, bitcast.first)
            IN  perform_cast(inner.flags, inner.text, bitcast.second)
      [] UnionOf(bitcast.op) # <<>> ->
            Cast(flags \cup {UnionOf(bitcast.op)}, Through(UnionOf(bitcast.op), op))
      [] bitcast.op \in {"I32ToI64", "LToI64", "PToP64"} -> Cast(flags, Converted(<<"int64">>, op))
      [] bitcast.op \in {"I64ToI32", "I64ToL"} -> Cast(flags, Converted(<<"int32">>, op))
      [] bitcast.op \in {"P64ToP", "I32ToP", "LToP"} ->
            Cast(flags, Converted(<<"uint8", "t", "*">>, op))
      [] bitcast.op \in {"PToI32", "PToL"} -> Cast(flags, Converted(<<"uintptr", "t">>, op))
      [] OTHER -> Cast(flags, op)

\* Instruction::Bitcasts (lib.rs:2644-2649): each operand cast in turn
RECURSIVE EmitBitcasts(_, _)
EmitBitcasts(b, casts) ==
    IF casts = <<>> THEN b
    ELSE LET done == perform_cast(b.needs_union, Var("op"), Head(casts))
         IN  EmitBitcasts([b EXCEPT !.needs_union = done.flags,
                                    !.bitcasts = Append(@, done.text)],
                          Tail(casts))

\* Instruction::VariantPayloadName (lib.rs:2769-2773)
EmitPayloadName(b) ==
    LET tmp == NsTmp(b.locals, <<"payload">>)
    IN  [b EXCEPT !.locals = tmp.ns, !.payloads = Append(@, tmp.ret)]

LastN(s, n) == SubSeq(s, Len(s) - n + 1, Len(s))
DropN(s, n) == SubSeq(s, 1, Len(s) - n)

\* one arm of a dispatch: the case, its block and the name of its payload
Arm(case, block, payload) == [case |-> case, block |-> block, payload |-> payload]
NoPayload == <<>>

\* the cases of the type an instruction dispatches on, in the order of
\* their discriminants: none and some, ok and err, the cases of a variant
CaseNames(ty) ==
    CASE Types[ty].kind = "Option" -> <<"none", "some">>
      [] Types[ty].kind = "Result" -> <<"ok", "err">>
      [] OTHER -> [i \in DOMAIN Types[ty].tys |-> ToString(i - 1)]
CaseTys(ty) == IF Types[ty].kind = "Option" THEN <<NoTy>> \o Types[ty].tys ELSE Types[ty].tys

\* the blocks and payload names a dispatch takes: VariantLower and
\* VariantLift drain the last of them in order (lib.rs:2780-2788,
\* 2828-2831), the others pop the later arm and then the earlier one
\* (lib.rs:2862-2865, 2896-2897, 2937-2940, 2983-2985); the first
\* definition pairs the later block with the earlier case
ArmsOfSwapped(b, inst, lower) ==
    LET blocks == LastN(b.blocks, inst.n)
        payloads == IF lower THEN LastN(b.payloads, inst.n) ELSE [i \in 1..inst.n |-> NoPayload]
    IN  [i \in 1..inst.n |->
            Arm(CaseNames(inst.ty)[i], blocks[inst.n + 1 - i], payloads[i])]
ArmsOf(b, inst, lower) ==
    LET blocks == LastN(b.blocks, inst.n)
        payloads == IF lower THEN LastN(b.payloads, inst.n) ELSE [i \in 1..inst.n |-> NoPayload]
    IN  [i \in 1..inst.n |-> Arm(CaseNames(inst.ty)[i], blocks[i], payloads[i])]

\* the assertions of the lifts: an arm yields its payload and nothing else
\* (lib.rs:2843, 2898-2899, 2984-2986)
ArmsYieldPayloads(ty, arms) ==
    \A i \in DOMAIN arms :
        Len(arms[i].block.operands) = (IF CaseTys(ty)[i] = NoTy THEN 0 ELSE 1)

\* VariantLower, OptionLower, ResultLower (lib.rs:2775-2826, 2857-2894,
\* 2932-2981)
EmitCasesLower(b, inst) ==
    [b EXCEPT !.blocks = DropN(@, inst.n),
              !.payloads = DropN(@, inst.n),
              !.src = Append(@, Stmt("cases", <<>>, ArmsOf(b, inst, TRUE)))]

\* VariantLift, OptionLift, ResultLift (lib.rs:2827-2856, 2895-2931,
\* 2982-3031)
EmitCasesLift(b, inst) ==
    IF ~ArmsYieldPayloads(inst.ty, ArmsOf(b, inst, FALSE))
    THEN [b EXCEPT !.abort = "assertion failed"]
    ELSE [b EXCEPT !.blocks = DropN(@, inst.n),
                   !.src = Append(@, Stmt("cases", <<>>, ArmsOf(b, inst, FALSE)))]

\* the instructions that dispatch on a discriminant take the blocks of their
\* cases off blocks and splice them into src; ListLower drops its block
\* (lib.rs:2775-3031, 3060-3065)
Lowers == {"VariantLower", "OptionLower", "ResultLower"}
Lifts == {"VariantLift", "OptionLift", "ResultLift"}
EmitCases(b, inst) ==
    CASE inst.op = "ListLower" -> [b EXCEPT !.blocks = Front(@)]
      [] inst.op \in Lowers -> EmitCasesLower(b, inst)
      [] inst.op \in Lifts -> EmitCasesLift(b, inst)

\* return_pointer (lib.rs:2563-2584) keeps the largest request of each area;
\* the first definition keeps the latest request instead
return_pointerLatest(in_import, b, size, align) ==
    LET tmp == NsTmp(b.locals, <<"ptr">>)
    IN  IF in_import
        THEN [b EXCEPT !.locals = tmp.ns,
                       !.import_return_pointer_area = ElementInfo(size, align),
                       !.src = Append(@, Stmt("assign", tmp.ret, <<"ret", "area">>))]
        ELSE [b EXCEPT !.locals = tmp.ns,
                       !.area = ElementInfo(size, align),
                       !.src = Append(@, Stmt("assign", tmp.ret, <<"RET", "AREA">>))]
return_pointer(in_import, b, size, align) ==
    LET tmp == NsTmp(b.locals, <<"ptr">>)
    IN  IF in_import
        THEN [b EXCEPT !.locals = tmp.ns,
                       !.import_return_pointer_area =
                           ElementInfo(Max(@.size, size), Max(@.align, align)),
                       !.src = Append(@, Stmt("assign", tmp.ret, <<"ret", "area">>))]
        ELSE [b EXCEPT !.locals = tmp.ns,
                       !.area = ElementInfo(Max(@.size, size), Max(@.align, align)),
                       !.src = Append(@, Stmt("assign", tmp.ret, <<"RET", "AREA">>))]

\* Instruction::CallWasm (lib.rs:3080-3101) and CallInterface (3103-3241):
\* the call statement, its result in a fresh local
EmitCall(b, inst) ==
    LET tmp == NsTmp(b.locals, <<"ret">>)
    IN  IF inst.op = "CallWasm" /\ b.sig.core_results = 0
        THEN Write(b, Stmt("call_wasm", <<>>, <<>>))
        ELSE IF inst.op = "CallWasm"
        THEN [Write(b, Stmt("call_wasm", tmp.ret, <<>>)) EXCEPT !.locals = tmp.ns]
        ELSE IF b.sig.ret.scalar.tag = "Void"
        THEN Write(b, Stmt("call_interface", <<>>, <<b.sig.ret.scalar.tag>>))
        ELSE [Write(b, Stmt("call_interface", tmp.ret, <<b.sig.ret.scalar.tag>>))
                 EXCEPT !.locals = tmp.ns]

\* `{e}.{name}` and `P{type}({ptr} + {offset})^`
Field(e, name) == [node |-> "field", text |-> name, args |-> <<e>>]
Load(type, ptr, offset) == [node |-> "load", text |-> type, offset |-> offset, args |-> <<ptr>>]

\* store_in_retptr (lib.rs:2517-2523); indexing past the out-parameters panics
store_in_retptrFirst(b, operand) ==
    IF b.abort # "none" THEN b
    ELSE IF b.sig.retptrs = <<>> THEN [b EXCEPT !.abort = "index out of bounds"]
    ELSE Write(b, Stmt("store", b.sig.retptrs[1], operand))
store_in_retptr(b, operand) ==
    IF b.abort # "none" THEN b
    ELSE IF b.ret_store_cnt + 1 \notin DOMAIN b.sig.retptrs
    THEN [b EXCEPT !.abort = "index out of bounds"]
    ELSE [Write(b, Stmt("store", b.sig.retptrs[b.ret_store_cnt + 1], operand))
             EXCEPT !.ret_store_cnt = @ + 1]

\* assert_eq!(self.ret_store_cnt, self.sig.retptrs.len()) (lib.rs:3296)
AllStored(b) ==
    IF b.abort = "none" /\ b.ret_store_cnt # Len(b.sig.retptrs)
    THEN [b EXCEPT !.abort = "assertion failed"] ELSE b

RECURSIVE StoreOperands(_, _)
StoreOperands(b, operands) ==
    IF operands = <<>> THEN b
    ELSE StoreOperands(store_in_retptr(b, Head(operands)), Tail(operands))

\* Return of an import wrapper, Scalar::OptionBool (lib.rs:3257-3264)
ReturnOptionBoolNoStore(b, variant) == Write(b, Stmt("exit", "", Field(variant, "is_some")))
ReturnOptionBool(b, variant) ==
    Write(store_in_retptr(b, Field(variant, "val")), Stmt("exit", "", Field(variant, "is_some")))

\* Return of an import wrapper, Scalar::ResultBool (lib.rs:3265-3297)
ReturnResultBoolOkFirst(b, variant, ok, err) ==
    LET first == IF ok # NoTy THEN store_in_retptr(b, Field(variant, "ok")) ELSE b
        both == IF err # NoTy THEN store_in_retptr(first, Field(variant, "err")) ELSE first
        test == Write(both, Stmt("if_not", "", Field(variant, "is_err")))
        mid == Write(Write(test, Stmt("exit", "", Lit("true"))), Stmt("else", "", Lit("")))
    IN  Write(Write(mid, Stmt("exit", "", Lit("false"))), Stmt("end", "", Lit("")))
ReturnResultBool(b, variant, ok, err) ==
    LET test == Write(b, Stmt("if_not", "", Field(variant, "is_err")))
        then == IF ok # NoTy THEN store_in_retptr(test, Field(variant, "ok")) ELSE test
        mid == Write(Write(then, Stmt("exit", "", Lit("true"))), Stmt("else", "", Lit("")))
        else == IF err # NoTy THEN store_in_retptr(mid, Field(variant, "err")) ELSE mid
    IN  IF Len(b.sig.retptrs) > 2 THEN [b EXCEPT !.abort = "assertion failed"]
        ELSE AllStored(Write(Write(else, Stmt("exit", "", Lit("false"))), Stmt("end", "", Lit(""))))

\* Instruction::Return of an import wrapper (lib.rs:3242-3298)
ReturnImport(b, operands) ==
    LET s == b.sig.ret.scalar
    IN  CASE s.tag = "None" -> StoreOperands(b, operands)
          [] s.tag = "Void" -> b
          [] s.tag = "Type" -> Write(b, Stmt("exit", "", operands[1]))
          [] s.tag = "OptionBool" -> ReturnOptionBool(b, operands[1])
          [] s.tag = "ResultBool" -> ReturnResultBool(b, operands[1], s.a, s.b)

\* the drop of every recorded borrow (lib.rs:3304-3309)
RECURSIVE DropBorrows(_, _)
DropBorrows(reg, borrows) ==
    IF borrows = <<>> THEN <<>>
    ELSE <<Stmt("drop", Head(borrows).name, reg[Head(borrows).ty].drop_fn)>>
         \o DropBorrows(reg, Tail(borrows))

\* where the drops go: after the statements of the body
DropsFirst(decls, body, drops) == decls \o drops \o body
DropsLast(decls, body, drops) == decls \o body \o drops

\* Instruction::Return of an export adapter (lib.rs:3299-3315): the
\* declarations of the borrows are put before the statements written so far;
\* the first definition leaves them where the buffer ends
ReturnExportDeclsLate(reg, b, amt) ==
    LET body == b.src \o b.borrow_decls \o DropBorrows(reg, b.borrows)
    IN  [b EXCEPT !.borrow_decls = <<>>,
                  !.src = IF amt = 1 THEN Append(body, Stmt("return", <<>>, <<"op">>)) ELSE body]
ReturnExport(reg, b, amt) ==
    LET body == DropsLast(b.borrow_decls, b.src, DropBorrows(reg, b.borrows))
    IN  [b EXCEPT !.borrow_decls = <<>>,
                  !.src = IF amt = 1 THEN Append(body, Stmt("return", <<>>, <<"op">>)) ELSE body]

\* Bindgen::emit (lib.rs:2590-3400) and the calls abi::call makes besides it
emit(reg, in_import, b, inst) ==
    LET done == CASE inst.op = "HandleLift" -> EmitHandleLift(reg, in_import, b, inst.ty)
                  [] inst.op \in {"ListCanonLift", "ListLift"} ->
                        EmitListLift(reg, in_import, b, inst)
                  [] inst.op \in {"push_block", "finish_block"} -> EmitBlock(b, inst)
                  [] inst.op \in Lowers \cup Lifts \cup {"ListLower"} -> EmitCases(b, inst)
                  [] inst.op = "VariantPayloadName" -> EmitPayloadName(b)
                  [] inst.op = "Bitcasts" -> EmitBitcasts(b, inst.casts)
                  [] inst.op = "return_pointer" ->
                        return_pointer(in_import, b, inst.size, inst.align)
                  [] inst.op \in {"CallWasm", "CallInterface"} -> EmitCall(b, inst)
                  [] inst.op = "Return" ->
                        IF in_import THEN ReturnImport(b, [i \in 1..inst.n |-> Var("op")])
                        ELSE ReturnExport(reg, b, inst.n)
                  [] inst.op = "StringLift" -> EmitStringLift(b)
                  [] inst.op \in Unrendered -> [b EXCEPT !.abort = "unimplemented"]
                  [] OTHER -> b
    IN  IF done.abort # "none" THEN done ELSE [done EXCEPT !.pc = b.pc + 1]

\* the core signature's number of results and the CSig of print_sig
FnSig(result, sig_flattening) ==
    [ret |-> classify_ret(result, sig_flattening),
     retptrs |-> RetptrNames(classify_ret(result, sig_flattening)),
     core_results |-> IF FlatCount(result) > MaxFlatResults THEN 0 ELSE FlatCount(result)]

\* the locals taken before abi::call: the parameters and return pointers of
\* an import wrapper (lib.rs:2020-2031), one `arg` per core parameter of an
\* export adapter (lib.rs:2099-2106)
RECURSIVE ArgLocals(_, _)
ArgLocals(ns, n) == IF n = 0 THEN ns ELSE ArgLocals(NsTmp(ns, <<"arg">>).ns, n - 1)

SeededLocals(in_import, sig, params) ==
    IF in_import
    THEN [EmptyNs EXCEPT !.defined = {<<"p", ToString(i)>> : i \in DOMAIN params}
                                      \cup {<<sig.retptrs[i]>> : i \in DOMAIN sig.retptrs}]
    ELSE ArgLocals(EmptyNs, IF FlatSum(params) > MaxFlatParams THEN 1 ELSE FlatSum(params))

-----------------------------------------------------------------------------
(* print_sig, import and export of InterfaceGenerator.                      *)

\* the type print_sig prints for a parameter (lib.rs:2201-2222)
SigParamTy(ty, sig_flattening) ==
    IF ty.k = "Id" /\ Types[ty.id].kind = "Option" /\ sig_flattening
    THEN Types[ty.id].tys[1] ELSE ty

\* print_sig after names.insert: the types are printed, then the signature
\* is in h_fns (lib.rs:2173-2265)
SigPrinted(g0, name, f, sig_flattening, ret) ==
    LET params == Funcs[f].params
        Printed(x) == IF x.abort # "none" THEN x
                      ELSE Emit(x, "h_fns", ItF(IF IsFunction(ret) THEN "function"
                                                ELSE "procedure", name, f))
    IN  Printed(PrintTys(
            PrintTys(IF ret.todo THEN Panic(g0, "todo")
                     ELSE IF ret.scalar.tag = "Type" THEN PrintTy(g0, ret.scalar.a) ELSE g0,
                     [i \in DOMAIN params |-> SigParamTy(params[i], sig_flattening)]),
            ret.retptrs))

\* names.insert(&name).expect("duplicate symbols") (lib.rs:2171)
NamesInsert(g, name) ==
    IF name \in g.names.defined THEN Panic(g, "duplicate symbols")
    ELSE [g EXCEPT !.names.defined = @ \cup {name}]

\* the CSig print_sig returns (lib.rs:2267-2273)
CSig(name, f, sig_flattening, ret) ==
    [name |-> name,
     params |-> [i \in DOMAIN Funcs[f].params |->
                    SigParamTy(Funcs[f].params[i], sig_flattening) = Funcs[f].params[i]
                    /\ is_arg_by_pointer(Funcs[f].params[i])],
     ret |-> ret,
     retptrs |-> RetptrNames(ret)]

\* print_sig (lib.rs:2164-2275): the state it leaves
print_sig(g, key, f, sig_flattening) ==
    SigPrinted(NamesInsert(g, c_func_name(g.in_import, key, f)),
               c_func_name(g.in_import, key, f), f, sig_flattening,
               classify_ret(Funcs[f].result, sig_flattening))

\* InterfaceGenerator::docs (lib.rs:2326-2337)
docs(g, f, buf) == IF f \in Documented THEN Emit(g, buf, ItF("docs", <<>>, f)) ELSE g

\* the core declaration keyword, or the rejection of a multi-value signature
\* (lib.rs:1941-1945, 2089-2093)
CoreKeywordAccepting(g, buf, import_name, f) ==
    Emit(g, buf, ItF("core_function", import_name, f))
CoreKeyword(g, buf, import_name, f) ==
    CASE SigResults(f) = 0 -> Emit(g, buf, ItF("core_procedure", import_name, f))
      [] SigResults(f) = 1 -> Emit(g, buf, ItF("core_function", import_name, f))
      [] OTHER -> Panic(g, "multi-value return not supported")

\* names.tmp("__wasm_{kind}_{name}") into the state: tmp is Ns::tmp's result
WithTmp(g, tmp) == [g EXCEPT !.names = tmp.ns]

\* abi::call over a new FunctionBindgen (lib.rs:1996-2040, 2094-2122)
RECURSIVE RunBody(_, _, _, _)
RunBody(reg, in_import, b, code) ==
    IF b.pc > Len(code) \/ b.abort # "none" THEN b
    ELSE RunBody(reg, in_import, emit(reg, in_import, b, code[b.pc]), code)

Body(g, f, sig) ==
    RunBody(g.resources, g.in_import,
            [NewFunctionBindgen(sig, g.return_pointer_area)
                EXCEPT !.locals = SeededLocals(g.in_import, sig, Funcs[f].params),
                       !.needs_union = g.needs_union],
            call(g.in_import, Funcs[f].params, Funcs[f].result))

\* the adapter of an import once its body is made: ret_area is a local if
\* the body asked for a return area (lib.rs:2042-2064)
ImportBody(g, f, import_name, b) ==
    IF b.abort # "none" THEN Panic(g, b.abort)
    ELSE LET locals == IF b.import_return_pointer_area.size > 0
                       THEN Emit(g, "c_adapters",
                                 ItF("ret_area",
                                     <<ToString(b.import_return_pointer_area.size - 1)>>, f))
                       ELSE g
         IN  [Emit(Emit(locals, "c_adapters", ItF("body", import_name, f)),
                   "c_adapters", ItF("end", <<>>, f))
                 EXCEPT !.fb = b, !.return_pointer_area = b.area, !.needs_union = b.needs_union]

\* import after the core declaration: the public signature, then the adapter
\* (lib.rs:1946-2064)
ImportAdapter(ps, key, f, import_name) ==
    IF ps.abort # "none" THEN ps
    ELSE ImportBody(Emit(Emit(ps, "c_fns", ItF("external", Funcs[f].name, f)),
                         "c_adapters",
                         ItF("adapter_head", c_func_name(ps.in_import, key, f), f)),
                    f, import_name,
                    Body(ps, f, FnSig(Funcs[f].result, ~opts.no_sig_flattening)))

ImportSig(g3, key, f, import_name) ==
    IF g3.abort # "none" THEN g3
    ELSE ImportAdapter(print_sig(g3, key, f, ~opts.no_sig_flattening), key, f, import_name)

\* import once the core name is made (lib.rs:1940-1945)
ImportCore(g1, key, f, tmp) ==
    ImportSig(CoreKeyword(WithTmp(g1, tmp), "c_fns", tmp.ret, f), key, f, tmp.ret)

\* import up to names.tmp (lib.rs:1921-1939)
ImportHead(g1, key, f) ==
    ImportCore(g1, key, f,
               NsTmp(g1.names, <<"", "", "wasm", "import">> \o c_func_name(g1.in_import, key, f)))

\* import (lib.rs:1920-2065)
import(g, key, f) ==
    IF g.abort # "none" THEN g
    ELSE ImportHead(Emit(docs(g, f, "h_fns"), "c_fns", ItF("nl", <<>>, f)), key, f)

\* export after the core declaration: the body, and the post-return
\* function if the result owns memory (lib.rs:2094-2161)
ExportWritten(g4, f, import_name, b) ==
    IF b.abort # "none" THEN Panic(g4, b.abort)
    ELSE [(IF NeedsPostReturn(Funcs[f].result)
           THEN Emit(Emit(Emit(g4, "c_adapters", ItF("body", import_name, f)),
                          "c_adapters", ItF("end", <<>>, f)),
                     "c_fns", ItF("post_return", import_name, f))
           ELSE Emit(Emit(g4, "c_adapters", ItF("body", import_name, f)),
                     "c_adapters", ItF("end", <<>>, f)))
             EXCEPT !.fb = b, !.return_pointer_area = b.area, !.needs_union = b.needs_union]

ExportBody(g4, f, import_name) ==
    IF g4.abort # "none" THEN g4
    ELSE ExportWritten(g4, f, import_name,
                       Body(g4, f, FnSig(Funcs[f].result, ~opts.no_sig_flattening)))

\* export once the core name is made (lib.rs:2088-2093)
ExportCore(g2, f, tmp) ==
    ExportBody(CoreKeyword(WithTmp(g2, tmp), "c_adapters", tmp.ret, f), f, tmp.ret)

\* export after print_sig (lib.rs:2078-2086)
ExportName(ps, f, key) ==
    IF ps.abort # "none" THEN ps
    ELSE ExportCore(Emit(ps, "c_adapters", ItF("export_name", Funcs[f].name, f)), f,
                    NsTmp(ps.names, <<"", "", "wasm", "export">>
                                    \o c_func_name(ps.in_import, key, f)))

\* export (lib.rs:2067-2162)
export(g, f, key) ==
    IF g.abort # "none" THEN g
    ELSE ExportName(print_sig(Emit(g, "c_fns", ItF("nl", <<>>, f)), key, f,
                              ~opts.no_sig_flattening), f, key)


-----------------------------------------------------------------------------
(* The world and the purge of the registries before the exports.            *)

\* the interfaces in a topological order: an interface after those it uses
InterfaceOrder == <<1, 2, 4, 3>>

\* a set of interface ids as a sequence, dependencies first
SeqOfSet(S) ==
    LET F[n \in 0..Len(InterfaceOrder)] ==
            IF n = 0 THEN <<>>
            ELSE IF InterfaceOrder[n] \in S THEN Append(F[n - 1], InterfaceOrder[n])
            ELSE F[n - 1]
    IN  F[Len(InterfaceOrder)]

Item(key, kind, id) == [key |-> key, kind |-> kind, id |-> id]

\* World.imports / World.exports for the interfaces imported and exported
\* and the world's own type and functions
WorldOf(I, E, wimp, wexp) ==
    [imports |-> [i \in 1..Cardinality(I) |->
                     Item(KeyInterface(SeqOfSet(I)[i]), "Interface", SeqOfSet(I)[i])]
                 \o (IF wimp THEN <<Item(KeyName(<<"wt">>), "Type", 27),
                                    Item(KeyName(<<"h1">>), "Function", 10)>>
                     ELSE <<>>),
     exports |-> [i \in 1..Cardinality(E) |->
                     Item(KeyInterface(SeqOfSet(E)[i]), "Interface", SeqOfSet(E)[i])]
                 \o (IF wexp THEN <<Item(KeyName(<<"h2">>), "Function", 11)>> ELSE <<>>)]

\* the ids of the items of one kind, in order
Select(items, kind) ==
    LET F[n \in 0..Len(items)] ==
            IF n = 0 THEN <<>>
            ELSE IF items[n].kind = kind THEN Append(F[n - 1], items[n].id) ELSE F[n - 1]
    IN  F[Len(items)]

\* imported_types_used_by_exported_interfaces (lib.rs:679-720)
imported_types_used_by_exported_interfaces(w) ==
    LET exported == Select(w.exports, "Interface")
        live_export_types == AddInterfaces(<<>>, exported)
        exported_interfaces == Range(exported)
        imports_used == {Types[ty].owner : ty \in Range(live_export_types)}
                        \cap (InterfaceIds \ exported_interfaces)
    IN  Range(AddInterfaces(<<>>, SeqOfSet(imports_used)))

\* the same, keeping only what the exports reach
ReachableFromExports(w) ==
    LET exported == Select(w.exports, "Interface")
    IN  {ty \in Range(AddInterfaces(<<>>, exported)) :
            Types[ty].owner \in InterfaceIds \ Range(exported)}

\* the set the registries are trimmed to (lib.rs:626-631)
PurgeKeepsAll(w) == TypeIds
PurgeKeeps(w) == imported_types_used_by_exported_interfaces(w)

-----------------------------------------------------------------------------
(* The generator calls of one pass, in the order of                         *)
(* wit_bindgen_core::WorldGenerator::generate.                              *)

Step(op, in_import, key, iface, ids, f, first) ==
    [op |-> op, in_import |-> in_import, key |-> key, iface |-> iface, ids |-> ids,
     f |-> f, first |-> first]

Op(op) == Step(op, TRUE, NoKey, 0, <<>>, 0, FALSE)

\* the calls made on one function after another of an interface or a world
FuncSteps(op, in_import, key, iface, fs) ==
    [i \in DOMAIN fs |-> Step(op, in_import, key, iface, <<>>, fs[i], i = 1)]

\* import_interface / export_interface of one interface
InterfaceSteps(in_import, item) ==
    <<Step("define_interface_types", in_import, item.key, item.id, <<>>, 0, FALSE)>>
    \o FuncSteps(IF in_import THEN "import" ELSE "export", in_import, item.key, item.id,
                 Interfaces[item.id].functions)
    \o <<Op("append")>>

RECURSIVE InterfacesSteps(_, _)
InterfacesSteps(in_import, items) ==
    IF items = <<>> THEN <<>>
    ELSE (IF Head(items).kind = "Interface" THEN InterfaceSteps(in_import, Head(items))
          ELSE <<>>)
         \o InterfacesSteps(in_import, Tail(items))

\* import_funcs / export_funcs
WorldFuncSteps(in_import, fs) ==
    IF fs = <<>> THEN <<>>
    ELSE <<Step("define_function_types", in_import, NoKey, 0, fs, 0, FALSE)>>
         \o FuncSteps(IF in_import THEN "import" ELSE "export", in_import, NoKey, 0, fs)
         \o <<Op("append")>>

Script(w) ==
    <<Op("preprocess")>>
    \o InterfacesSteps(TRUE, w.imports)
    \o (IF Select(w.imports, "Type") = <<>> THEN <<>>
        ELSE <<Step("import_types", TRUE, NoKey, 0, Select(w.imports, "Type"), 0, FALSE)>>)
    \o WorldFuncSteps(TRUE, Select(w.imports, "Function"))
    \o WorldFuncSteps(FALSE, Select(w.exports, "Function"))
    \o <<Op("pre_export_interface")>>
    \o InterfacesSteps(FALSE, w.exports)
    \o <<Op("finish")>>

-----------------------------------------------------------------------------
(* The pass: one action per generator call.                                 *)

NoOpts == [no_sig_flattening |-> FALSE, autodrop_borrows |-> FALSE, rename |-> <<>>,
           rename_world |-> <<>>, string_encoding |-> "UTF8", no_helpers |-> FALSE,
           no_object_file |-> FALSE]

\* `--rename my:pkg/types=ty`
RenameTypes == <<[from |-> NameWorldKey(KeyInterface(1)), to |-> <<"ty">>]>>

\* the option settings a pass is run with: the defaults, the renames, the
\* other signature and borrow handling, and all of them together
OptsFamily ==
    {NoOpts,
     [NoOpts EXCEPT !.rename = RenameTypes, !.rename_world = <<"app">>],
     [NoOpts EXCEPT !.no_sig_flattening = TRUE, !.autodrop_borrows = TRUE],
     [NoOpts EXCEPT !.no_sig_flattening = TRUE, !.autodrop_borrows = TRUE,
                    !.rename = RenameTypes, !.rename_world = <<"app">>]}

\* the worlds wit-parser accepts: what an interface uses is imported, or
\* exported along with it
ValidWorld(I, E) ==
    /\ \A i \in I : Deps(i) \subseteq I
    /\ \A e \in E : Deps(e) \subseteq I \cup E

WorldFamily ==
    {WorldOf(I, E, wimp, wexp) :
        I \in {X \in SUBSET Range(InterfaceOrder) : \A i \in X : Deps(i) \subseteq X},
        E \in SUBSET Range(InterfaceOrder), wimp \in BOOLEAN, wexp \in BOOLEAN}

InterfaceIdsOf(items) == Range(Select(items, "Interface"))

Worlds == {w \in WorldFamily : ValidWorld(InterfaceIdsOf(w.imports), InterfaceIdsOf(w.exports))}

NoSig == [done |-> FALSE, is_function |-> FALSE, ret_type |-> NoTy,
          ret |-> Ret(NoScalar, <<>>), retptrs |-> <<>>]
NoSigIn == [result |-> NoTy, sig_flattening |-> FALSE]

SigIdle == sig_in = NoSigIn /\ sig_out = NoSig
CvIdle == cv_in = <<>> /\ cv_core = <<>> /\ cv_out = <<>> /\ cv_pc = "idle"
\* no function body has been generated
NoFb == [pc |-> 0]
FnIdle == fn_in = <<>> /\ fb = NoFb
\* Source::default()
NewSource == [s |-> <<>>, indent |-> 0, in_line_comment |-> FALSE, continuing_line |-> FALSE]
SrcIdle == out = NewSource /\ pushed = <<>>

PassInit(W, O, M) ==
    /\ world \in W
    /\ opts \in O
    /\ multi \in M
    /\ todo = Script(world)
    /\ aborted = "none"
    /\ type_names = EmptyMap
    /\ prim_names = {}
    /\ dtor_funcs = EmptyMap
    /\ resources = EmptyMap
    /\ names = EmptyNs
    /\ renamed_interfaces = {}
    /\ needs_string = FALSE
    /\ gen_world = <<>>
    /\ gsrc = EmptySource
    /\ isrc = EmptySource
    /\ cur = NoCur
    /\ files = <<>>
    /\ return_pointer_area = ElementInfo(0, 0)
    /\ needs_union = {}

\* the state handed to the operators of an InterfaceGenerator
Gen(c, src) ==
    [type_names |-> type_names, prim_names |-> prim_names, dtor_funcs |-> dtor_funcs,
     resources |-> resources, names |-> names, needs_string |-> needs_string,
     src |-> src, abort |-> "none", in_import |-> c.in_import, iface |-> c.iface,
     key |-> c.key, return_pointer_area |-> return_pointer_area,
     needs_union |-> needs_union, fb |-> fb]

\* what a call leaves behind; a panic ends the pass
Commit(g, rest) ==
    /\ type_names' = g.type_names
    /\ prim_names' = g.prim_names
    /\ dtor_funcs' = g.dtor_funcs
    /\ resources' = g.resources
    /\ names' = g.names
    /\ needs_string' = g.needs_string
    /\ return_pointer_area' = g.return_pointer_area
    /\ needs_union' = g.needs_union
    /\ aborted' = g.abort
    /\ isrc' = g.src
    /\ todo' = IF g.abort = "none" THEN rest ELSE <<>>

\* what the generation of a function leaves behind: the FunctionBindgen is
\* dropped when the body is written, its last state is kept here
Generated(g, rest) == Commit(g, rest) /\ fb' = g.fb

Next1(op) == todo # <<>> /\ Head(todo).op = op

\* preprocess (lib.rs:145-171)
Preprocess ==
    /\ Next1("preprocess")
    /\ gen_world' = IF opts.rename_world # <<>> THEN opts.rename_world ELSE WorldName
    /\ LET items == world.imports \o world.exports
           interfaces == {NameWorldKey(items[i].key) : i \in DOMAIN items}
           KeyOf(n) == CHOOSE k \in {items[i].key : i \in DOMAIN items} : NameWorldKey(k) = n
       IN  renamed_interfaces' =
               {[key |-> KeyOf(opts.rename[j].from), to |-> opts.rename[j].to] :
                   j \in {k \in DOMAIN opts.rename : opts.rename[k].from \in interfaces}}
    /\ todo' = Tail(todo)
    /\ UNCHANGED <<world, opts, multi, aborted, type_names, prim_names, dtor_funcs, resources,
                   names, needs_string, gsrc, isrc, cur, files, return_pointer_area,
                   needs_union,
                   sigVars, cvVars, fnVars, srcVars>>

\* Pascal::interface with gen.interface set, then define_interface_types
\* (lib.rs:181-183, 228-230, 1592-1596)
DefineInterfaceTypes ==
    /\ Next1("define_interface_types")
    /\ LET st == Head(todo)
           c == [in_import |-> st.in_import, iface |-> st.iface, key |-> st.key]
           live == AddInterface(<<>>, st.iface)
       IN  cur' = c /\ Commit(define_live_types(Gen(c, EmptySource), live), Tail(todo))
    /\ UNCHANGED <<world, opts, multi, renamed_interfaces, gen_world, gsrc, files,
                   sigVars, cvVars, fnVars, srcVars>>

\* Pascal::interface, then define_function_types (lib.rs:207-208, 254-255, 1598-1604)
DefineFunctionTypes ==
    /\ Next1("define_function_types")
    /\ LET st == Head(todo)
           c == [in_import |-> st.in_import, iface |-> 0, key |-> NoKey]
           live == AddFuncs(<<>>, st.ids)
       IN  cur' = c /\ Commit(define_live_types(Gen(c, EmptySource), live), Tail(todo))
    /\ UNCHANGED <<world, opts, multi, renamed_interfaces, gen_world, gsrc, files,
                   sigVars, cvVars, fnVars, srcVars>>

\* what import_types leaves behind: its generator's buffer goes to Pascal.src
CommitTypes(g, rest) ==
    /\ type_names' = g.type_names
    /\ prim_names' = g.prim_names
    /\ dtor_funcs' = g.dtor_funcs
    /\ resources' = g.resources
    /\ names' = g.names
    /\ needs_string' = g.needs_string
    /\ return_pointer_area' = g.return_pointer_area
    /\ needs_union' = g.needs_union
    /\ aborted' = g.abort
    /\ isrc' = IF g.abort = "none" THEN EmptySource ELSE g.src
    /\ gsrc' = IF g.abort = "none" THEN SourceAppend(gsrc, g.src) ELSE gsrc
    /\ todo' = IF g.abort = "none" THEN rest ELSE <<>>

\* import_types (lib.rs:268-282)
ImportTypes ==
    /\ Next1("import_types")
    /\ cur' = NoCur
    /\ CommitTypes(define_live_types(Gen(NoCur, EmptySource),
                                     AddTypeIds(<<>>, Head(todo).ids)), Tail(todo))
    /\ UNCHANGED <<world, opts, multi, renamed_interfaces, gen_world, files, sigVars, cvVars, fnVars, srcVars>>

\* the comment before the first function (lib.rs:186-190, 211-214, 233-237, 258-261)
Header(g, st) ==
    IF st.first
    THEN Emit(Emit(g, "h_fns", It("functions_from", <<>>, 0)),
              "c_fns", It("functions_from", <<>>, 0))
    ELSE g

\* one round of the loop over the functions to import (lib.rs:185-192, 210-216)
Import ==
    /\ Next1("import")
    /\ Generated(import(Header(Gen(cur, isrc), Head(todo)), Head(todo).key, Head(todo).f),
                 Tail(todo))
    /\ UNCHANGED <<world, opts, multi, renamed_interfaces, gen_world, gsrc, cur, files,
                   sigVars, cvVars, fn_in, srcVars>>

\* one round of the loop over the functions to export (lib.rs:232-239, 257-263)
Export ==
    /\ Next1("export")
    /\ Generated(export(Header(Gen(cur, isrc), Head(todo)), Head(todo).f, Head(todo).key),
                 Tail(todo))
    /\ UNCHANGED <<world, opts, multi, renamed_interfaces, gen_world, gsrc, cur, files,
                   sigVars, cvVars, fn_in, srcVars>>

\* gen.gen.src.append(&gen.src) (lib.rs:194, 218, 241, 265)
AppendSrc ==
    /\ Next1("append")
    /\ gsrc' = SourceAppend(gsrc, isrc)
    /\ isrc' = EmptySource
    /\ cur' = NoCur
    /\ todo' = Tail(todo)
    /\ UNCHANGED <<world, opts, multi, aborted, type_names, prim_names, dtor_funcs, resources,
                   names, renamed_interfaces, needs_string, gen_world, files,
                   return_pointer_area, needs_union, sigVars, cvVars, fnVars, srcVars>>

\* pre_export_interface (lib.rs:537-540) and remove_types_redefined_by_exports
PreExportInterface ==
    /\ Next1("pre_export_interface")
    /\ dtor_funcs' = Retain(dtor_funcs, PurgeKeeps(world))
    /\ type_names' = Retain(type_names, PurgeKeeps(world))
    /\ resources' = Retain(resources, PurgeKeeps(world))
    /\ todo' = Tail(todo)
    /\ UNCHANGED <<world, opts, multi, aborted, prim_names, names, renamed_interfaces,
                   needs_string, gen_world, gsrc, isrc, cur, files, return_pointer_area,
                   needs_union,
                   sigVars, cvVars, fnVars, srcVars>>

\* the helpers of the string type (lib.rs:305-388)
StringHelpers(src) ==
    CASE opts.string_encoding = "UTF8" ->
            [src EXCEPT !.h_helpers = Append(@, It("string_fns", gen_world \o <<"string">>, 0)),
                        !.c_helpers = Append(@, It("string_fns", gen_world \o <<"string">>, 0))]
      [] opts.string_encoding = "UTF16" ->
            [src EXCEPT !.h_helpers = @ \o <<It("string_len", gen_world \o <<"string">>, 0),
                                             It("string_fns", gen_world \o <<"string">>, 0)>>,
                        !.c_helpers = @ \o <<It("string_len", gen_world \o <<"string">>, 0),
                                             It("string_fns", gen_world \o <<"string">>, 0)>>]
      [] OTHER -> src

\* the unions of the bit casts that were rendered (lib.rs:387-410)
UnionNames == <<<<"int32", "float">>, <<"float", "int32">>, <<"int64", "double">>,
                <<"double", "int64">>>>
UnionHelpers(src, flags) ==
    [src EXCEPT !.c_helpers =
        @ \o [i \in 1..Len(SelectSeq(UnionNames, LAMBDA u : u \in flags)) |->
                 It("union", SelectSeq(UnionNames, LAMBDA u : u \in flags)[i], 0)]]

\* the statically allocated return area of the exports (lib.rs:475-491)
StaticRetArea(area) ==
    IF area.size > 0
    THEN <<It("static_ret_area", <<ToString(area.align), ToString(area.size)>>, 0)>>
    ELSE <<>>

\* finish (lib.rs:284-535)
Finish ==
    /\ Next1("finish")
    /\ LET s1 == [gsrc EXCEPT !.c_adapters = Append(@, It("linking_symbol", gen_world, 0)),
                              !.c_fns = Append(@, It("cabi_realloc", <<>>, 0))]
           s2 == UnionHelpers(IF needs_string THEN StringHelpers(s1) ELSE s1, needs_union)
           helpers(buf) == IF ~opts.no_helpers /\ Len(s2[buf]) > 0
                           THEN <<It("helper_functions", <<>>, 0)>> \o s2[buf] ELSE <<>>
           h_str == <<It("preamble", gen_world, 0)>>
                    \o (IF needs_string
                        THEN <<It("type", gen_world \o <<"string", "t">>, 0)>> ELSE <<>>)
                    \o s2.h_defs \o s2.h_fns \o helpers("h_helpers")
                    \o <<It("endif", <<>>, 0)>>
           c_str == <<It("preamble", gen_world, 0)>> \o s2.c_defs \o s2.c_fns
                    \o helpers("c_helpers") \o <<It("component_adapters", <<>>, 0)>>
                    \o StaticRetArea(return_pointer_area) \o s2.c_adapters
           unit_str == <<It("unit", gen_world, 0)>>
           failed == needs_string /\ opts.string_encoding \notin {"UTF8", "UTF16"}
       IN  /\ gsrc' = s2
           /\ aborted' = IF failed THEN "unimplemented" ELSE aborted
           /\ files' = IF failed THEN files
                       ELSE <<[name |-> gen_world \o <<".pas">>, content |-> unit_str],
                              [name |-> gen_world \o <<"h.inc">>, content |-> h_str],
                              [name |-> gen_world \o <<".inc">>, content |-> c_str]>>
                            \o (IF opts.no_object_file THEN <<>>
                                ELSE <<[name |-> gen_world \o <<"component", "type.o">>,
                                        content |-> <<>>]>>)
    /\ todo' = Tail(todo)
    /\ UNCHANGED <<world, opts, multi, type_names, prim_names, dtor_funcs, resources, names,
                   renamed_interfaces, needs_string, gen_world, isrc, cur, return_pointer_area,
                   needs_union,
                   sigVars, cvVars, fnVars, srcVars>>

PassNext ==
    \/ Preprocess
    \/ DefineInterfaceTypes
    \/ DefineFunctionTypes
    \/ ImportTypes
    \/ Import
    \/ Export
    \/ AppendSrc
    \/ PreExportInterface
    \/ Finish

Init == PassInit(Worlds, OptsFamily, {0}) /\ SigIdle /\ CvIdle /\ FnIdle /\ SrcIdle
Next == PassNext
Spec == Init /\ [][Next]_vars

-----------------------------------------------------------------------------
(* Properties of naming.                                                    *)

Bufs == DOMAIN EmptySource

\* the fragments of a buffer set emitted for the type t
Tagged(src, t) ==
    UNION {{<<b, i>> : i \in {j \in DOMAIN src[b] : src[b][j].ty = t}} : b \in Bufs}

\* how many fragments (declarations, constructors, destructors) the pass has
\* emitted for the type t so far
EmittedFor(t) == Cardinality(Tagged(gsrc, t)) + Cardinality(Tagged(isrc, t))

\* the calls still to make do not include op
Done(op) == \A i \in DOMAIN todo : todo[i].op # op

Imported == InterfaceIdsOf(world.imports)
Exported == InterfaceIdsOf(world.exports)

\* the namespace of the interface or world being generated
CurrentNamespace ==
    IF cur.iface # 0 THEN interface_identifier(cur.key, ~cur.in_import) ELSE gen_world

Anonymous(t) == Types[t].name = <<>>

\* C1: naming is idempotent.  In every step of a pass, a type that has an
\* entry in the name registry before the step and after it keeps its name,
\* and the step emits nothing more for it (no second declaration,
\* constructor or destructor); and the pass never ends in the assertion
\* that guards re-registration.
C1_NamingIdempotent ==
    /\ [][\A t \in DOMAIN type_names :
            t \in DOMAIN type_names' =>
                /\ type_names'[t] = type_names[t]
                /\ EmittedFor(t)' = EmittedFor(t)]_vars
    /\ [](aborted # "assert prev.is_none")

\* the types of interface 1 are named, and the types interface 2 keeps live,
\* which include the record and the resource of interface 1, were gone
\* through once more
C1_Witness ==
    /\ aborted = "none"
    /\ cur.iface = 2
    /\ Contains(AddInterface(<<>>, cur.iface), 2)
    /\ {1, 2, 8, 9} \subseteq DOMAIN type_names
    /\ EmittedFor(2) > 0

\* a primitive-only anonymous type, named once for the world
PooledType(t) == Anonymous(t) /\ is_prim_type_id(t)

\* C2: two distinct type identities never receive the same canonical name:
\* the name registry maps distinct types to distinct names (two uses of one
\* pooled primitive-only shape, which share their name, set aside).
C2_DistinctNames ==
    \A a, b \in DOMAIN type_names :
        a # b /\ ~(PooledType(a) /\ PooledType(b)) => type_names[a] # type_names[b]

\* the set the purge keeps, told from the world: the types live in an
\* imported interface that is not exported and owns a type an exported
\* interface reaches
LiveInUsedImports(w) ==
    {t \in TypeIds :
        \E i \in InterfaceIds \ InterfaceIdsOf(w.exports) :
            /\ \E e \in InterfaceIdsOf(w.exports) :
                   \E u \in Range(AddInterface(<<>>, e)) : Types[u].owner = i
            /\ t \in Range(AddInterface(<<>>, i))}

PurgeStep == todo # <<>> /\ Head(todo).op = "pre_export_interface"

Declarations(n) ==
    Cardinality({i \in DOMAIN gsrc.h_defs : gsrc.h_defs[i].op = "type"
                                             /\ gsrc.h_defs[i].name = n})
    + Cardinality({i \in DOMAIN isrc.h_defs : isrc.h_defs[i].op = "type"
                                               /\ isrc.h_defs[i].name = n})

\* C4: primitive-only anonymous types are pooled.  Every registered one is
\* named by the world and its shape, so all uses of a shape share the name;
\* a pooled name is declared exactly once, whatever the purge removed; and a
\* step that registers another anonymous type names it under the namespace
\* of the interface or world being generated.
C4_PrimitivePooling ==
    /\ [](\A t \in DOMAIN type_names :
              PooledType(t) =>
                  /\ type_names[t] = gen_world \o push_ty_name(Id(t)) \o <<"t">>
                  /\ type_names[t] \in prim_names)
    /\ [](aborted = "none" => \A n \in prim_names : Declarations(n) = 1)
    /\ [][\A t \in DOMAIN type_names' \ DOMAIN type_names :
              Anonymous(t) /\ ~is_prim_type_id(t) =>
                  type_names'[t] = CurrentNamespace' \o push_ty_name(Id(t)) \o <<"t">>]_vars

\* interface 1 is exported after it was imported and purged: its pooled
\* list<string> is registered again under the name declared for the import,
\* and its option<rec> under the namespace of the export
C4_Witness ==
    /\ aborted = "none"
    /\ 1 \in Imported
    /\ Done("pre_export_interface")
    /\ ~cur.in_import /\ cur.iface = 1
    /\ {4, 5} \subseteq DOMAIN type_names
    /\ type_names[4] = gen_world \o <<"list", "string", "t">>
    /\ Declarations(type_names[4]) = 1
    /\ type_names[5] = CurrentNamespace \o <<"option", "rec", "t">>

-----------------------------------------------------------------------------
(* The signature classifier on its own: one declared result, one setting of *)
(* sig_flattening, classified as print_sig does.                            *)

\* no pass is running
PassIdle ==
    /\ world = WorldOf({}, {}, FALSE, FALSE)
    /\ opts = NoOpts
    /\ multi = 0
    /\ todo = <<>>
    /\ aborted = "none"
    /\ type_names = EmptyMap
    /\ prim_names = {}
    /\ dtor_funcs = EmptyMap
    /\ resources = EmptyMap
    /\ names = EmptyNs
    /\ renamed_interfaces = {}
    /\ needs_string = FALSE
    /\ gen_world = WorldName
    /\ gsrc = EmptySource
    /\ isrc = EmptySource
    /\ cur = NoCur
    /\ files = <<>>
    /\ return_pointer_area = ElementInfo(0, 0)
    /\ needs_union = {}

\* the results a function can declare: none, a primitive, a string, or a
\* type of the arena other than the resource itself
DeclaredResults ==
    {NoTy, Prim("String")} \cup {Prim(k) : k \in PrimKinds}
    \cup {Id(t) : t \in {u \in TypeIds : Types[u].kind # "Resource"}}

SigInit ==
    /\ sig_in \in [result : DeclaredResults, sig_flattening : BOOLEAN]
    /\ sig_out = NoSig

\* print_sig's classification of the result (lib.rs:2177-2187, 2231-2254)
Classified(ret) ==
    [done |-> TRUE, is_function |-> IsFunction(ret), ret_type |-> SigRetType(ret),
     ret |-> ret, retptrs |-> RetptrNames(ret)]

Classify ==
    /\ ~sig_out.done
    /\ sig_out' = Classified(classify_ret(sig_in.result, sig_in.sig_flattening))
    /\ UNCHANGED <<sig_in, passVars, cvVars, fnVars, srcVars>>

InitSig == PassIdle /\ SigInit /\ CvIdle /\ FnIdle /\ SrcIdle
NextSig == Classify
SpecSig == InitSig /\ [][NextSig]_vars

\* the type a declared result is, aliases followed
Declared(ty) == IF ty.k = "Id" THEN Types[Dealias(ty.id)] ELSE TD(<<>>, ty.k, OwnerNone, <<>>)

Flattening == sig_in.sig_flattening

\* C5: for a result that is option<T>, directly or through aliases, with
\* flattening enabled the signature is a function returning boolean with
\* exactly one out-parameter, of type T.
C5_OptionFlattened ==
    sig_out.done /\ Flattening /\ Declared(sig_in.result).kind = "Option" =>
        /\ sig_out.is_function
        /\ sig_out.ret_type = Prim("Bool")
        /\ sig_out.ret.retptrs = <<Declared(sig_in.result).tys[1]>>
        /\ Len(sig_out.retptrs) = 1

\* the alias `ao` of option<u32> was classified with flattening enabled
C5_Witness ==
    sig_out.done /\ Flattening /\ sig_in.result = Id(18)
    /\ sig_out.ret.retptrs = <<Prim("U32")>>

\* C6: for a result that is result<Ok, Err>, with flattening enabled the
\* signature is a function returning boolean whose out-parameters are the Ok
\* payload if present, then the Err payload if present (none, one or two),
\* named in that order: `ret` for Ok, `err` for Err.
C6_ResultFlattened ==
    sig_out.done /\ Flattening /\ Declared(sig_in.result).kind = "Result" =>
        LET ok == Declared(sig_in.result).tys[1]
            err == Declared(sig_in.result).tys[2]
        IN  /\ sig_out.is_function
            /\ sig_out.ret_type = Prim("Bool")
            /\ sig_out.ret.retptrs =
                   (IF ok # NoTy THEN <<ok>> ELSE <<>>) \o (IF err # NoTy THEN <<err>> ELSE <<>>)
            /\ sig_out.retptrs =
                   (IF ok # NoTy THEN <<"ret">> ELSE <<>>)
                   \o (IF err # NoTy THEN <<"err">> ELSE <<>>)
            /\ Len(sig_out.retptrs) <= 2

\* the alias `ar` of result<u32, string> was classified with flattening enabled
C6_Witness ==
    sig_out.done /\ Flattening /\ sig_in.result = Id(23)
    /\ sig_out.retptrs = <<"ret", "err">>

ScalarKinds == PrimKinds \cup {"Enum", "Flags", "Own", "Borrow"}

\* C7: a result that is an enum, flags, a handle or a primitive scalar is
\* returned by value, as the declared type, with no out-parameter, whatever
\* the flattening option.
C7_ScalarByValue ==
    sig_out.done /\ Declared(sig_in.result).kind \in ScalarKinds =>
        /\ sig_out.ret.scalar = ScalarType(sig_in.result)
        /\ sig_out.is_function
        /\ sig_out.ret_type = sig_in.result
        /\ sig_out.ret.retptrs = <<>>
        /\ sig_out.retptrs = <<>>

\* the flags `fl` were classified with flattening disabled
C7_Witness ==
    sig_out.done /\ ~Flattening /\ sig_in.result = Id(14)
    /\ sig_out.ret.scalar.tag = "Type"

\* C8: a result that is a record, tuple, list or variant, or an option or
\* result while flattening is disabled, has no scalar return and exactly one
\* out-parameter, of the full declared result type.
C8_CompositeIndirect ==
    (/\ sig_out.done
     /\ \/ Declared(sig_in.result).kind \in {"Record", "Tuple", "List", "Variant"}
        \/ ~Flattening /\ Declared(sig_in.result).kind \in {"Option", "Result"}) =>
        /\ sig_out.ret.scalar = NoScalar
        /\ ~sig_out.is_function
        /\ sig_out.ret.retptrs = <<sig_in.result>>
        /\ sig_out.retptrs = <<"ret">>

\* result<u32, string> was classified with flattening disabled
C8_Witness ==
    sig_out.done /\ ~Flattening /\ sig_in.result = Id(19)
    /\ sig_out.ret.retptrs = <<Id(19)>>

-----------------------------------------------------------------------------
(* Passes in which wasm_signature hands back more than one core result for  *)
(* the function `multi`.                                                    *)

\* the worlds with their own type and functions next to the interfaces
AbortWorlds ==
    {w \in Worlds : Select(w.imports, "Function") # <<>> /\ Select(w.exports, "Function") # <<>>}

InitAbort == PassInit(AbortWorlds, {NoOpts}, FuncIds) /\ SigIdle /\ CvIdle /\ FnIdle /\ SrcIdle
NextAbort == PassNext
SpecAbort == InitAbort /\ [][NextAbort]_vars

MultiValue == "multi-value return not supported"

\* the next call is import or export of the function with several core results
AtMulti == aborted = "none" /\ todo # <<>> /\ Head(todo).op \in {"import", "export"}
           /\ Head(todo).f = multi

\* the fragments of the current interface's buffers emitted for the function
\* f whose kind is in ops
FnItems(f, ops) ==
    UNION {{<<b, i>> : i \in {j \in DOMAIN isrc[b] : isrc[b][j].fn = f /\ isrc[b][j].op \in ops}} :
              b \in Bufs}

\* the core declaration, the adapter and the body of a function
CoreOps == {"core_function", "core_procedure", "external", "adapter_head", "body", "end",
            "post_return"}
\* what is written ahead of the core declaration
EarlyOps == {"docs", "nl", "function", "procedure", "export_name"}

\* C9: import or export of a function whose core signature has more than one
\* result ends the pass with "multi-value return not supported": the calls
\* still to make are dropped, no file is ever produced, and no core
\* declaration, adapter or body of the function is in a buffer.  By then the
\* call has already appended to the interface's buffers (the blank line, the
\* docs, and for an export the public signature and the export-name comment)
\* and has reserved names in the name registry.
C9_MultiValueRejected ==
    /\ [][AtMulti =>
            /\ aborted' = MultiValue
            /\ todo' = <<>>
            /\ files' = <<>>
            /\ FnItems(multi, CoreOps)' = FnItems(multi, CoreOps)
            /\ FnItems(multi, EarlyOps)' # FnItems(multi, EarlyOps)
            /\ names.defined \subseteq names'.defined
            /\ names'.defined # names.defined
            /\ Head(todo).op = "export" =>
                   Cardinality(FnItems(multi, {"function", "procedure"})')
                       = Cardinality(FnItems(multi, {"function", "procedure"})) + 1]_vars
    /\ [](aborted # "none" => files = <<>> /\ todo = <<>>)

\* the export of the world's own function h2 was rejected after its public
\* signature went to h_fns
C9_Witness ==
    /\ aborted = MultiValue
    /\ multi = 11
    /\ ~cur.in_import
    /\ FnItems(11, {"procedure"}) # {}
    /\ FnItems(11, CoreOps) = {}

\* C9 as stated: when the pass is ended for the function, no buffer and no
\* name registry has been changed on its behalf.
C9_NothingChanged ==
    [][AtMulti =>
            /\ aborted' = MultiValue
            /\ FnItems(multi, CoreOps \cup EarlyOps)' = FnItems(multi, CoreOps \cup EarlyOps)
            /\ names' = names]_vars

-----------------------------------------------------------------------------
(* The integer conversions of FunctionBindgen::emit.  An integer is the     *)
(* Pascal type it has and its two's-complement bytes, lowest first; the     *)
(* casts are the Pascal typecasts the instructions are rendered as.         *)

IntKinds == {"U8", "S8", "U16", "S16", "U32", "S32", "U64", "S64"}

\* the Pascal integer types: size in bytes and signedness
PascalInt(name) ==
    CASE name = "byte" -> [size |-> 1, signed |-> FALSE]
      [] name = "int8" -> [size |-> 1, signed |-> TRUE]
      [] name = "uint16" -> [size |-> 2, signed |-> FALSE]
      [] name = "int16" -> [size |-> 2, signed |-> TRUE]
      [] name = "uint32" -> [size |-> 4, signed |-> FALSE]
      [] name = "int32" -> [size |-> 4, signed |-> TRUE]
      [] name = "uint64" -> [size |-> 8, signed |-> FALSE]
      [] name = "int64" -> [size |-> 8, signed |-> TRUE]

IntValue(type, bytes) == [type |-> type, bytes |-> bytes]
NoValue == IntValue("none", <<>>)

\* the core type of the instruction pair of an integer kind, as wasm_type
\* names it (lib.rs:3457-3467)
CoreType(k) == IF k \in {"U64", "S64"} THEN "int64" ELSE "int32"

\* a Pascal value typecast between integer types: the bytes are cut to the
\* size of the target, or extended by the sign of the source
PascalCast(target, v) ==
    LET n == PascalInt(target).size
        m == Len(v.bytes)
        fill == IF PascalInt(v.type).signed /\ v.bytes[m] >= 128 THEN 255 ELSE 0
    IN  IntValue(target, [i \in 1..n |-> IF i <= m THEN v.bytes[i] ELSE fill])

\* the typecast a lifting instruction is rendered as ("": the operand as it is)
\* (lib.rs:2606-2612)
LiftCastByte(k) == "byte"
LiftCast(k) ==
    CASE k = "U8" -> "byte" [] k = "S8" -> "int8" [] k = "U16" -> "uint16"
      [] k = "S16" -> "int16" [] k = "U32" -> "uint32" [] k = "U64" -> "uint64"
      [] k \in {"S32", "S64"} -> ""

\* the typecast a lowering instruction is rendered as (lib.rs:2614-2625)
LowerCast(k) ==
    CASE k \in {"U8", "S8", "U16", "S16", "U32"} -> "int32"
      [] k = "U64" -> "int64"
      [] k \in {"S32", "S64"} -> ""

\* the value of the expression pushed for an instruction
Rendered(cast, operand) == IF cast = "" THEN operand ELSE PascalCast(cast, operand)

\* U8FromI32 ... U64FromI64
LiftInt(k, operand) == Rendered(LiftCast(k), operand)
\* I32FromU8 ... I64FromU64
LowerInt(k, operand) == Rendered(LowerCast(k), operand)

\* the bytes sampled: the ends and the middle of the byte range
ByteSamples == {0, 1, 127, 128, 255}

\* the byte strings of a size with sampled lowest, inner and highest bytes
Samples(size) ==
    {[i \in 1..size |-> IF i = 1 THEN lo ELSE IF i = size THEN hi ELSE mid] :
        lo \in ByteSamples, mid \in ByteSamples, hi \in ByteSamples}

\* the values of a Pascal integer type
ValuesOf(type) == {IntValue(type, b) : b \in Samples(PascalInt(type).size)}

CastInit ==
    /\ cv_in \in UNION {[kind : {k}, value : ValuesOf(PascalPrim(k))] : k \in IntKinds}
    /\ cv_core = NoValue
    /\ cv_out = <<>>
    /\ cv_pc = "lower"

\* the component value is lowered to its core value
Lower ==
    /\ cv_pc = "lower"
    /\ cv_core' = LowerInt(cv_in.kind, cv_in.value)
    /\ cv_pc' = "lift"
    /\ UNCHANGED <<cv_in, cv_out, passVars, sigVars, fnVars, srcVars>>

\* the core value is lifted back
Lift ==
    /\ cv_pc = "lift"
    /\ cv_out' = <<LiftInt(cv_in.kind, cv_core)>>
    /\ cv_pc' = "raw"
    /\ UNCHANGED <<cv_in, cv_core, passVars, sigVars, fnVars, srcVars>>

\* any core value arrives from the other side and is lifted
LiftRaw ==
    /\ cv_pc = "raw"
    /\ \E raw \in ValuesOf(CoreType(cv_in.kind)) :
           /\ cv_core' = raw
           /\ cv_out' = Append(cv_out, LiftInt(cv_in.kind, raw))
    /\ cv_pc' = "done"
    /\ UNCHANGED <<cv_in, passVars, sigVars, fnVars, srcVars>>

InitCast == PassIdle /\ SigIdle /\ CastInit /\ FnIdle /\ SrcIdle
NextCast == Lower \/ Lift \/ LiftRaw
SpecCast == InitCast /\ [][NextCast]_vars

\* the number a byte string of at most three bytes stands for, unsigned
RECURSIVE Unsigned(_)
Unsigned(bytes) == IF bytes = <<>> THEN 0 ELSE Head(bytes) + 256 * Unsigned(Tail(bytes))

\* the number an integer of at most 32 bits stands for (an unsigned one of
\* at most 16 bits)
Num(v) ==
    LET n == Len(v.bytes)
    IN  IF PascalInt(v.type).signed /\ v.bytes[n] >= 128
        THEN Unsigned(Front(v.bytes)) + (v.bytes[n] - 256) * 256 ^ (n - 1)
        ELSE Unsigned(v.bytes)

\* C10: lowering a value of an integer type and lifting the result gives the
\* value back, as the same type; lifting any core value gives the value of
\* the component type whose bytes are the low bytes of the core value, which
\* for the 8- and 16-bit kinds is the number congruent to the core value
\* modulo 2^width in the range of the type (wraparound, no saturation).
C10_IntegerRoundTrip ==
    /\ cv_pc \in {"raw", "done"} =>
           /\ cv_core.type = CoreType(cv_in.kind)
           /\ cv_out[1] = cv_in.value
    /\ cv_pc = "done" =>
           LET size == PascalInt(PascalPrim(cv_in.kind)).size
               lifted == cv_out[2]
           IN  /\ lifted.type = PascalPrim(cv_in.kind)
               /\ lifted.bytes = SubSeq(cv_core.bytes, 1, size)
               /\ size <= 2 =>
                      /\ Num(lifted) % 2 ^ (8 * size) = Num(cv_core) % 2 ^ (8 * size)
                      /\ IF PascalInt(lifted.type).signed
                         THEN Num(lifted) \in -(2 ^ (8 * size - 1))..(2 ^ (8 * size - 1) - 1)
                         ELSE Num(lifted) \in 0..(2 ^ (8 * size) - 1)

\* the s8 value -1 came back from its core value, and the core value 128,
\* out of the range of s8, was lifted to -128
C10_Witness ==
    /\ cv_pc = "done"
    /\ cv_in.kind = "S8"
    /\ Num(cv_in.value) = -1
    /\ cv_out[1] = cv_in.value
    /\ Num(cv_core) = 128
    /\ Num(cv_out[2]) = -128

-----------------------------------------------------------------------------
(* FlagsLower and FlagsLift.  What an instruction pushes is an expression   *)
(* of the generated function, kept with the operators and literals the      *)
(* generator writes; a mask is the set of its bits.                         *)

\* flags_repr (lib.rs:3478-3486) of Flags::repr for a number of members
flags_repr(members) ==
    CASE members <= 8 -> "U8"
      [] members <= 16 -> "U16"
      [] members <= 32 -> "U32"
      [] members <= 64 -> "U64"
      [] OTHER -> "panic"

\* FlagsLower (lib.rs:2744-2755): the statements written and the results
FlagsLowerRendered(name, operand) ==
    IF flags_repr(name.members) \in {"U8", "U16", "U32"}
    THEN [stmts |-> <<>>, results |-> <<operand>>]
    ELSE [stmts |-> <<DeclInit(name.type, "flags", operand)>>,
          results |-> <<Bin("&", Var("flags"), Lit("0xffffffff")),
                        Bin("&", Bin(">>", Var("flags"), Lit("32")), Lit("0xffffffff"))>>]

\* FlagsLift (lib.rs:2757-2767)
FlagsLiftRendered(name, operands) ==
    IF flags_repr(name.members) \in {"U8", "U16", "U32"}
    THEN [stmts |-> <<>>, results |-> <<operands[Len(operands)]>>]
    ELSE [stmts |-> <<>>,
          results |-> <<Bin("|", CastTo(name.type, operands[1]),
                            Bin("<<", CastTo(name.type, operands[2]), Lit("32")))>>]

\* the outcome of evaluating generated code: a mask, or the compiler's refusal
Value(bits) == [ok |-> TRUE, bits |-> bits]
Rejected == [ok |-> FALSE, bits |-> {}]

WordBits == 0..31

\* Free Pascal's reading of an expression: `and`, `or`, `shl`, `shr` (also
\* written << and >>), `$` for hexadecimal, typecasts by type name.  The
\* operators & and | and the literal 0x.. are not Pascal.
RECURSIVE PascalEval(_, _)
PascalEval(e, env) ==
    CASE e.node = "var" -> IF e.text \in DOMAIN env THEN env[e.text] ELSE Rejected
      [] e.node = "lit" ->
            CASE e.text = "32" -> Value({5})
              [] e.text = "$ffffffff" -> Value(WordBits)
              [] OTHER -> Rejected
      [] e.node = "cast" -> PascalEval(e.args[1], env)
      [] e.node = "bin" ->
            LET l == PascalEval(e.args[1], env)
                r == PascalEval(e.args[2], env)
            IN  IF ~l.ok \/ ~r.ok THEN Rejected
                ELSE CASE e.text = "and" -> Value(l.bits \cap r.bits)
                       [] e.text = "or" -> Value(l.bits \cup r.bits)
                       [] e.text \in {"shr", ">>"} /\ r.bits = {5} ->
                             Value({b - 32 : b \in {x \in l.bits : x >= 32}})
                       [] e.text \in {"shl", "<<"} /\ r.bits = {5} ->
                             Value({b + 32 : b \in {x \in l.bits : x < 32}})
                       [] OTHER -> Rejected
      [] OTHER -> Rejected

\* a Pascal body takes statements of the form `name := expr;` with name
\* declared in the var section; `type name = expr;` is not one
PascalStmtOk(st) == st.node = "assign"

\* the values of the results of rendered code, its operands bound in env
Run(code, env) ==
    IF \E i \in DOMAIN code.stmts : ~PascalStmtOk(code.stmts[i])
    THEN [i \in DOMAIN code.results |-> Rejected]
    ELSE [i \in DOMAIN code.results |-> PascalEval(code.results[i], env)]

\* the numbers of members of the flags types, and the bits sampled
FlagsMembers == {3, 8, 16, 32, 40}
BitSamples == {0, 2, 7, 15, 31, 32, 39}

FlagsInit ==
    /\ cv_in \in UNION {[name : {[type |-> <<"fl", "t">>, members |-> n]},
                         mask : SUBSET (BitSamples \cap (0..(n - 1)))] : n \in FlagsMembers}
    /\ cv_core = <<>>
    /\ cv_out = <<>>
    /\ cv_pc = "lower"

Operands(n) == [i \in 1..n |-> Var(<<"op", i>>)]
Bound(values) == [v \in {<<"op", i>> : i \in DOMAIN values} |-> values[v[2]]]

\* the mask is lowered to its core words
FlagsLower ==
    /\ cv_pc = "lower"
    /\ cv_core' = Run(FlagsLowerRendered(cv_in.name, Operands(1)[1]),
                      Bound(<<Value(cv_in.mask)>>))
    /\ cv_pc' = "lift"
    /\ UNCHANGED <<cv_in, cv_out, passVars, sigVars, fnVars, srcVars>>

\* the core words are lifted to a mask
FlagsLift ==
    /\ cv_pc = "lift"
    /\ cv_out' = Run(FlagsLiftRendered(cv_in.name, Operands(Len(cv_core))), Bound(cv_core))
    /\ cv_pc' = "done"
    /\ UNCHANGED <<cv_in, cv_core, passVars, sigVars, fnVars, srcVars>>

InitFlags == PassIdle /\ SigIdle /\ FlagsInit /\ FnIdle /\ SrcIdle
NextFlags == FlagsLower \/ FlagsLift
SpecFlags == InitFlags /\ [][NextFlags]_vars

\* C11: flags round trip.  A mask of a flags type with 40 members is
\* lowered to two 32-bit words, low bits first, and lifting the two words
\* gives the mask back bit for bit; flags of at most 32 members pass as one
\* unchanged word.
C11_FlagsRoundTrip ==
    /\ cv_pc \in {"lift", "done"} =>
           IF cv_in.name.members <= 32
           THEN cv_core = <<Value(cv_in.mask)>>
           ELSE cv_core = <<Value(cv_in.mask \cap WordBits),
                            Value({b - 32 : b \in cv_in.mask \ WordBits})>>
    /\ cv_pc = "done" => cv_out = <<Value(cv_in.mask)>>


-----------------------------------------------------------------------------
(* One function body at a time: the generator is given a function of an     *)
(* interface being imported or exported, with the registry the types left;  *)
(* every instruction is one step.                                           *)

ResourceIds == {1, 46}

\* type_resource, as it registered a resource while its interface was
\* imported or exported
Registered(reg, id, direction) ==
    TypeResourceIn([type_names |-> [x \in {id} |-> Types[id].name], prim_names |-> {},
                    dtor_funcs |-> EmptyMap, resources |-> reg, names |-> EmptyNs,
                    needs_string |-> FALSE, src |-> EmptySource, abort |-> "none",
                    in_import |-> direction = "Import", iface |-> Types[id].owner,
                    key |-> KeyInterface(Types[id].owner)],
                   id, <<"my", "pkg">>).resources

Registry(d1, d46) == Registered(Registered(EmptyMap, 1, d1), 46, d46)

\* the parameter lists and the results of the functions generated
HandleTypes == {Id(6), Id(7), Id(10), Id(47), Id(49)}
ValueTypes ==
    HandleTypes \cup {Prim("U32"), Prim("String")}
    \cup {Id(t) : t \in {4, 11, 17, 31, 32, 33, 34, 35, 36, 37, 38, 39, 40, 41, 42, 43, 44,
                         45, 48, 50, 51, 58, 59, 62, 64}}
ParamLists == {<<t>> : t \in ValueTypes} \cup {<<s, t>> : s, t \in HandleTypes}
ResultTypes ==
    {NoTy, Prim("U32"), Id(7), Id(4), Id(6), Id(33), Id(17), Id(19), Id(20), Id(21), Id(22), Id(31)}

AutodropOpts == {[NoOpts EXCEPT !.autodrop_borrows = a] : a \in BOOLEAN}

FnInit ==
    /\ world = WorldOf({}, {}, FALSE, FALSE)
    /\ opts \in AutodropOpts
    /\ multi = 0
    /\ todo = <<>>
    /\ aborted = "none"
    /\ type_names = EmptyMap
    /\ prim_names = {}
    /\ dtor_funcs = EmptyMap
    /\ \E in_import \in BOOLEAN, d1, d46 \in {"Import", "Export"} :
          /\ in_import => d1 = "Import" /\ d46 = "Import"
          /\ cur = [in_import |-> in_import, iface |-> 1, key |-> KeyInterface(1)]
          /\ resources = Registry(d1, d46)
    /\ names = EmptyNs
    /\ renamed_interfaces = {}
    /\ needs_string = FALSE
    /\ gen_world = WorldName
    /\ gsrc = EmptySource
    /\ isrc = EmptySource
    /\ files = <<>>
    /\ return_pointer_area = ElementInfo(0, 0)
    /\ needs_union = {}
    /\ \E params \in ParamLists, result \in ResultTypes :
          fn_in = [params |-> params, result |-> result,
                   code |-> call(cur.in_import, params, result)]
    /\ fb = [NewFunctionBindgen(FnSig(fn_in.result, ~opts.no_sig_flattening), ElementInfo(0, 0))
                EXCEPT !.locals = SeededLocals(cur.in_import,
                                               FnSig(fn_in.result, ~opts.no_sig_flattening),
                                               fn_in.params)]

\* the instruction the generator is handed next
AtInst(ops) ==
    fb.abort = "none" /\ fb.pc \in DOMAIN fn_in.code /\ fn_in.code[fb.pc].op \in ops
Emitted == emit(resources, cur.in_import, fb, fn_in.code[fb.pc])

StepHandleLift ==
    /\ AtInst({"HandleLift"})
    /\ fb' = Emitted
    /\ UNCHANGED <<fn_in, passVars, sigVars, cvVars, srcVars>>

StepListLift ==
    /\ AtInst({"ListCanonLift", "ListLift"})
    /\ fb' = Emitted
    /\ UNCHANGED <<fn_in, passVars, sigVars, cvVars, srcVars>>

StepBlock ==
    /\ AtInst({"push_block", "finish_block"})
    /\ fb' = Emitted
    /\ UNCHANGED <<fn_in, passVars, sigVars, cvVars, srcVars>>

StepBitcasts ==
    /\ AtInst({"Bitcasts"})
    /\ fb' = Emitted
    /\ UNCHANGED <<fn_in, passVars, sigVars, cvVars, srcVars>>

StepPayloadName ==
    /\ AtInst({"VariantPayloadName"})
    /\ fb' = Emitted
    /\ UNCHANGED <<fn_in, passVars, sigVars, cvVars, srcVars>>

StepCases ==
    /\ AtInst(Lowers \cup Lifts \cup {"ListLower"})
    /\ fb' = Emitted
    /\ UNCHANGED <<fn_in, passVars, sigVars, cvVars, srcVars>>

StepReturnPointer ==
    /\ AtInst({"return_pointer"})
    /\ fb' = Emitted
    /\ UNCHANGED <<fn_in, passVars, sigVars, cvVars, srcVars>>

StepCall ==
    /\ AtInst({"CallWasm", "CallInterface"})
    /\ fb' = Emitted
    /\ UNCHANGED <<fn_in, passVars, sigVars, cvVars, srcVars>>

StepReturn ==
    /\ AtInst({"Return"})
    /\ fb' = Emitted
    /\ UNCHANGED <<fn_in, passVars, sigVars, cvVars, srcVars>>

\* the instructions that only turn operands into other operands
StepConvert ==
    /\ AtInst({"Convert", "StringLift", "StringLower", "HandleLower", "ListCanonLower",
               "RecordLift", "RecordLower"})
    /\ fb' = Emitted
    /\ UNCHANGED <<fn_in, passVars, sigVars, cvVars, srcVars>>

InitFn == FnInit /\ SigIdle /\ CvIdle /\ SrcIdle
NextFn ==
    \/ StepHandleLift \/ StepListLift \/ StepBlock \/ StepPayloadName \/ StepCases
    \/ StepBitcasts
    \/ StepReturnPointer
    \/ StepCall \/ StepReturn \/ StepConvert
SpecFn == InitFn /\ [][NextFn]_vars


-----------------------------------------------------------------------------
(* The result path of an import wrapper, run: the imported function leaves  *)
(* its result in the return area, the wrapper lifts it into a local and     *)
(* returns it through the flattened signature.                              *)

\* FunctionBindgen::load and load_ext (lib.rs:2497-2505)
load(ty, offset, ptr) == Load(ty, ptr, offset)
load_ext(ty, offset, ptr) == CastTo("int32", load(ty, offset, ptr))

\* `{var}.{field} := {e};` and `case {e} of 0: begin .. end; 1: begin .. end; end;`
SetField(var, field, e) == Stmt("set", <<var, field>>, e)
CaseOf(e, arms) == Stmt("case", e, arms)

\* Instruction::StringLift (lib.rs:3050-3059): `{string}_create(P{char}(ptr), len)`
StringLiftRendered(ptr, len) == [node |-> "create", text |-> "string", args |-> <<ptr, len>>]

\* Instruction::OptionLift (lib.rs:2895-2930)
OptionLiftRendered(result, op0, none, some, some_result) ==
    CaseOf(op0, << <<SetField(result, "is_some", Lit("false"))>> \o none,
                   <<SetField(result, "is_some", Lit("true"))>> \o some
                   \o <<SetField(result, "val", some_result)>> >>)

\* Instruction::ResultLift (lib.rs:2982-3032); ok_results and err_results are
\* empty for a case without a payload
ResultLiftRendered(result_tmp, op0, ok, ok_results, err, err_results) ==
    CaseOf(op0, << <<SetField(result_tmp, "is_err", Lit("false"))>> \o ok
                   \o [i \in DOMAIN ok_results |-> SetField(result_tmp, "ok", ok_results[i])],
                   <<SetField(result_tmp, "is_err", Lit("true"))>> \o err
                   \o [i \in DOMAIN err_results |-> SetField(result_tmp, "err", err_results[i])] >>)

\* the expression pushed for a lifting instruction (lib.rs:2606-2612)
CastExpr(cast, e) == IF cast = "" THEN e ELSE CastTo(cast, e)

\* Generator::read_from_memory for the payload of a case at an offset of the
\* return area: nothing, a u32 or a string
PayloadRead(ty, ptr, offset) ==
    CASE ty = NoTy -> <<>>
      [] ty.k = "String" ->
            <<StringLiftRendered(load("Pbyte", offset, ptr), load("SizeUInt", offset + 4, ptr))>>
      [] OTHER -> <<CastExpr(LiftCast(ty.k), load(CoreType(ty.k), offset, ptr))>>

\* Generator::read_from_memory for an option or a result in the return
\* area: the discriminant is a byte at 0, the payload follows at its alignment
ReadVariant(id, ptr) ==
    LET d == Types[Dealias(id)]
        offset == AlignTo(1, PayloadLayout(d.tys, ElementInfo(0, 1)).align)
        disc == load_ext("byte", 0, ptr)
    IN  IF d.kind = "Option"
        THEN [src |-> <<OptionLiftRendered("option", disc, <<>>, <<>>,
                                           PayloadRead(d.tys[1], ptr, offset)[1])>>,
              operand |-> Var("option")]
        ELSE [src |-> <<ResultLiftRendered("result", disc,
                                           <<>>, PayloadRead(d.tys[1], ptr, offset),
                                           <<>>, PayloadRead(d.tys[2], ptr, offset))>>,
              operand |-> Var("result")]

\* the statements of Instruction::Return for the lifted operand
ReturnStmts(id, sig_flattening, operand) ==
    ReturnImport(NewFunctionBindgen(FnSig(Id(id), sig_flattening), ElementInfo(0, 0)),
                 <<operand>>).src

\* the value of a Pascal expression
RECURSIVE Eval(_, _)
Eval(e, env) ==
    CASE e.node = "var" -> env.vars[e.text]
      [] e.node = "field" -> Eval(e.args[1], env)[e.text]
      [] e.node = "load" -> env.mem[e.offset]
      [] e.node = "cast" -> PascalCast(e.text, Eval(e.args[1], env))
      [] e.node = "create" -> [ptr |-> Eval(e.args[1], env), len |-> Eval(e.args[2], env)]
      [] e.node = "lit" -> (e.text = "true")

\* what running Pascal statements does: mode is "run", or what the run is
\* skipping to ("else", "end") in an if statement; exit leaves the function
RECURSIVE ExecAll(_, _)
Exec(st, env) ==
    CASE env.exited -> env
      [] env.mode = "else" -> IF st.op = "else" THEN [env EXCEPT !.mode = "run"] ELSE env
      [] env.mode = "end" -> IF st.op = "end" THEN [env EXCEPT !.mode = "run"] ELSE env
      [] st.op = "set" -> [env EXCEPT !.vars[st.name[1]][st.name[2]] = Eval(st.arg, env)]
      [] st.op = "case" ->
            LET sel == Unsigned(Eval(st.name, env).bytes)
            IN  IF sel + 1 \in DOMAIN st.arg THEN ExecAll(st.arg[sel + 1], env) ELSE env
      [] st.op = "if_not" -> IF Eval(st.arg, env) THEN [env EXCEPT !.mode = "else"] ELSE env
      [] st.op = "else" -> [env EXCEPT !.mode = "end"]
      [] st.op = "store" ->
            [env EXCEPT !.out = Put(@, st.name, Eval(st.arg, env))]
      [] st.op = "exit" -> [env EXCEPT !.exited = TRUE, !.exit = Eval(st.arg, env)]
      [] OTHER -> env

ExecAll(stmts, env) == IF stmts = <<>> THEN env ELSE ExecAll(Tail(stmts), Exec(Head(stmts), env))

\* the results returned: option<u32>, its alias, result<u32,string>, its
\* alias, result<_,string>, result<u32>
VariantResults == {17, 18, 19, 23, 20, 21}

U32Samples == {IntValue("uint32", b) : b \in {<<0, 0, 0, 0>>, <<5, 0, 0, 0>>, <<7, 0, 0, 0>>, <<1, 0, 0, 128>>, <<255, 255, 255, 255>>}}
StringSamples == {[ptr |-> [addr |-> a], len |-> [len |-> n]] : a \in {0, 16}, n \in {0, 3}}

\* the values of a payload type, and what a local of it holds before it is
\* assigned
Payloads(ty) ==
    CASE ty = NoTy -> {NoValue}
      [] ty.k = "String" -> StringSamples
      [] OTHER -> U32Samples

Values(id) ==
    LET d == Types[Dealias(id)]
    IN  IF d.kind = "Option"
        THEN [is_some : BOOLEAN, val : Payloads(d.tys[1])]
        ELSE [is_err : BOOLEAN, ok : Payloads(d.tys[1]), err : Payloads(d.tys[2])]

\* the canonical ABI's store of a payload at an offset
StoredPayload(ty, v, offset) ==
    CASE ty = NoTy -> EmptyMap
      [] ty.k = "String" -> Put(Put(EmptyMap, offset, v.ptr), offset + 4, v.len)
      [] OTHER -> Put(EmptyMap, offset, PascalCast("int32", v))

\* the return area after the call: the discriminant and the payload of the
\* case the value is in
Stored(id, v) ==
    LET d == Types[Dealias(id)]
        offset == AlignTo(1, PayloadLayout(d.tys, ElementInfo(0, 1)).align)
        Disc(n) == Put(EmptyMap, 0, IntValue("byte", <<n>>))
    IN  IF d.kind = "Option"
        THEN (IF v.is_some THEN Disc(1) @@ StoredPayload(d.tys[1], v.val, offset) ELSE Disc(0))
        ELSE (IF v.is_err THEN Disc(1) @@ StoredPayload(d.tys[2], v.err, offset)
              ELSE Disc(0) @@ StoredPayload(d.tys[1], v.ok, offset))

RetInit ==
    /\ cv_in \in UNION {[ty : {id}, sig_flattening : BOOLEAN, value : Values(id)] :
                            id \in VariantResults}
    /\ cv_core = EmptyMap
    /\ cv_out = <<>>
    /\ cv_pc = "call"

\* Instruction::CallWasm, run: the imported function fills the return area
RunCallWasm ==
    /\ cv_pc = "call"
    /\ cv_core' = Stored(cv_in.ty, cv_in.value)
    /\ cv_pc' = "lift"
    /\ UNCHANGED <<cv_in, cv_out, passVars, sigVars, fnVars, srcVars>>

\* the lift of the result, run: the local starts with whatever its memory held
RunLift ==
    /\ cv_pc = "lift"
    /\ \E before \in Values(cv_in.ty) :
          cv_out' = ExecAll(ReadVariant(cv_in.ty, Var("ptr")).src,
                            [vars |-> [v \in {ReadVariant(cv_in.ty, Var("ptr")).operand.text}
                                          |-> before],
                             mem |-> cv_core, out |-> EmptyMap, exited |-> FALSE,
                             exit |-> FALSE, mode |-> "run"])
    /\ cv_pc' = "return"
    /\ UNCHANGED <<cv_in, cv_core, passVars, sigVars, fnVars, srcVars>>

\* Instruction::Return, run
RunReturn ==
    /\ cv_pc = "return"
    /\ cv_out' = ExecAll(ReturnStmts(cv_in.ty, cv_in.sig_flattening,
                                     ReadVariant(cv_in.ty, Var("ptr")).operand), cv_out)
    /\ cv_pc' = "done"
    /\ UNCHANGED <<cv_in, cv_core, passVars, sigVars, fnVars, srcVars>>

InitRet == PassIdle /\ SigIdle /\ RetInit /\ FnIdle /\ SrcIdle
NextRet == RunCallWasm \/ RunLift \/ RunReturn
SpecRet == InitRet /\ [][NextRet]_vars

-----------------------------------------------------------------------------
(* Claims about one function body (SpecFn).                                *)

InExport == ~cur.in_import
Direction(id) == resources[Dealias(id)].direction

\* the handle lifts the generator has been handed so far, in order
RECURSIVE HandleLifts(_, _)
HandleLifts(code, n) ==
    IF n = 0 THEN <<>>
    ELSE IF code[n].op = "HandleLift" THEN Append(HandleLifts(code, n - 1), code[n].ty)
    ELSE HandleLifts(code, n - 1)

LiftsDone == HandleLifts(fn_in.code, fb.pc - 1)

\* C12: in an export adapter a borrow of a resource registered as exported is
\* lifted by a direct pointer cast and is not put on the deferred-drop list,
\* and in every state every entry of the deferred-drop list names a resource
\* whose registered direction is Import.
C12_ExportedBorrowCast ==
    /\ \A i \in DOMAIN fb.borrows : resources[fb.borrows[i].ty].direction = "Import"
    /\ fb.abort = "none" /\ InExport =>
          /\ Len(fb.lifted) = Len(LiftsDone)
          /\ \A i \in DOMAIN fb.lifted :
                Types[LiftsDone[i]].kind = "Borrow" /\ Direction(ResourceOf(LiftsDone[i])) = "Export"
                    => fb.lifted[i] = [form |-> "pointer_cast",
                                       ty |-> Dealias(ResourceOf(LiftsDone[i]))]
          /\ Len(fb.borrows) <= Cardinality({i \in DOMAIN LiftsDone :
                                    /\ Types[LiftsDone[i]].kind = "Borrow"
                                    /\ Direction(ResourceOf(LiftsDone[i])) = "Import"})

\* an export adapter, autodrop on, has lifted a borrow of an exported resource
\* and a borrow of an imported one: only the second is on the list
C12_Witness ==
    /\ InExport /\ autodrop_enabled
    /\ fb.pc > Len(fn_in.code)
    /\ fn_in.params = <<Id(47), Id(6)>>
    /\ Direction(46) = "Export" /\ Direction(1) = "Import"
    /\ fb.lifted[1].form = "pointer_cast"
    /\ Len(fb.borrows) = 1 /\ fb.borrows[1].ty = 1


\* the lifts so far of borrows the export adapter has to drop: borrows of a
\* resource registered as imported
Droppable ==
    SelectSeq(LiftsDone, LAMBDA ty : Types[ty].kind = "Borrow" /\ Direction(ResourceOf(ty)) = "Import")

Returned == fb.abort = "none" /\ fb.pc > Len(fn_in.code)
Ops(stmts) == [i \in DOMAIN stmts |-> stmts[i].op]
DropsOf(stmts) == SelectSeq(stmts, LAMBDA st : st.op = "drop")
\* the statements after the last one that is neither a drop nor the return
RECURSIVE Epilogue(_)
Epilogue(stmts) ==
    IF stmts = <<>> \/ stmts[Len(stmts)].op \notin {"drop", "return"} THEN <<>>
    ELSE Append(Epilogue(Front(stmts)), stmts[Len(stmts)])

\* C13: with autodrop on, every borrow of an imported resource lifted in an
\* export adapter is on the deferred-drop list exactly once (one entry per
\* lift, each under its own name), and the finished function has exactly one
\* drop call per entry, the drops standing together right before the return
\* that ends the body; with autodrop off, or in an import wrapper, the list
\* stays empty and no drop is written.
C13_AutodropOncePerBorrow ==
    /\ InExport /\ autodrop_enabled =>
          /\ Len(fb.borrows) = Len(Droppable)
          /\ \A i \in DOMAIN fb.borrows : fb.borrows[i].ty = Dealias(ResourceOf(Droppable[i]))
          /\ \A i, j \in DOMAIN fb.borrows : i # j => fb.borrows[i].name # fb.borrows[j].name
    /\ ~(InExport /\ autodrop_enabled) => fb.borrows = <<>>
    /\ Returned =>
          /\ Len(DropsOf(fb.src)) = Len(fb.borrows)
          /\ \A i \in DOMAIN fb.borrows :
                /\ DropsOf(fb.src)[i].name = fb.borrows[i].name
                /\ DropsOf(fb.src)[i].arg = resources[fb.borrows[i].ty].drop_fn
          /\ InExport =>
                Ops(Epilogue(fb.src)) =
                    [i \in 1..Len(fb.borrows) |-> "drop"]
                    \o (IF fn_in.code[Len(fn_in.code)].n = 1 THEN <<"return">> ELSE <<>>)

\* an export adapter with two borrows of an imported resource has returned:
\* two drops, then the return
C13_Witness ==
    /\ InExport /\ autodrop_enabled /\ Returned
    /\ fn_in.params = <<Id(6), Id(10)>> /\ fn_in.result = Prim("U32")
    /\ Direction(1) = "Import"
    /\ Len(fb.borrows) = 2
    /\ Ops(Epilogue(fb.src)) = <<"drop", "drop", "return">>


\* C14: with autodrop on, an export adapter is never finished for a function
\* whose result carries a borrow of an imported resource: generation aborts
\* with the diagnostic instead.
C14_BorrowInResultRejected ==
    InExport /\ autodrop_enabled /\ contains_droppable_borrow(resources, cur.in_import, fn_in.result)
        => ~Returned


\* the types a value of type t is made of: t, what an alias stands for, the
\* fields, the payloads of the cases, the elements
RECURSIVE Parts(_)
Parts(t) ==
    {t} \cup (IF Types[t].kind \in {"Own", "Borrow", "Resource"} THEN {}
              ELSE UNION {Parts(Types[t].tys[i].id) :
                            i \in {j \in DOMAIN Types[t].tys : Types[t].tys[j].k = "Id"}})

HoldsImportedBorrow(t) ==
    \E p \in Parts(t) : Types[p].kind = "Borrow" /\ Direction(ResourceOf(p)) = "Import"

ListLiftOps == {"ListCanonLift", "ListLift"}

\* C15: the lift of a list aborts generation exactly when the body is an
\* export adapter, autodrop is on and the list type holds, at any depth, a
\* borrow of an imported resource: nothing else aborts a body, and no such
\* lift is ever passed; in an import wrapper, with autodrop off, or for lists
\* of own handles or of borrows of exported resources the lift goes through.
C15_ListOfBorrowsAborts ==
    /\ fb.abort # "none" =>
          /\ fb.abort = Unable
          /\ fn_in.code[fb.pc].op \in ListLiftOps
          /\ InExport /\ autodrop_enabled /\ HoldsImportedBorrow(fn_in.code[fb.pc].ty)
    /\ \A i \in 1..(fb.pc - 1) :
          fn_in.code[i].op \in ListLiftOps
              => ~(InExport /\ autodrop_enabled /\ HoldsImportedBorrow(fn_in.code[i].ty))

\* the lift of list<br>, br a record with a borrow of an imported resource,
\* has aborted the export adapter
C15_Witness ==
    /\ fb.abort = Unable
    /\ fn_in.params = <<Id(36)>>
    /\ fn_in.code[fb.pc] = Inst("ListLift", 36)


\* what the caller of the wrapper sees
Flattened(kind) ==
    cv_pc = "done" /\ cv_in.sig_flattening /\ Types[Dealias(cv_in.ty)].kind = kind

-----------------------------------------------------------------------------
(* Claims about the return areas (Spec).                                    *)

\* the return_pointer requests of a body, and the largest of them
Requests(code) == {code[i] : i \in {j \in DOMAIN code : code[j].op = "return_pointer"}}
Largest(reqs) ==
    ElementInfo(IF reqs = {} THEN 0 ELSE CHOOSE n \in {r.size : r \in reqs} : \A r \in reqs : r.size <= n,
                IF reqs = {} THEN 0 ELSE CHOOSE n \in {r.align : r \in reqs} : \A r \in reqs : r.align <= n)

\* the steps of the pass already taken, and the requests of its exports so far
Taken == SubSeq(Script(world), 1, Len(Script(world)) - Len(todo))
ExportRequests(steps) ==
    UNION {Requests(CallExport(Funcs[steps[i].f].params, Funcs[steps[i].f].result)) :
              i \in {j \in DOMAIN steps : steps[j].op = "export"}}
HasStaticArea(file) == \E i \in DOMAIN file.content : file.content[i].op = "static_ret_area"

\* C18: the local return area of an import function is the largest request of
\* that one function, the static return area of the pass is the largest
\* request of the export functions generated so far; an import leaves the
\* static area alone, an export leaves the local area at 0, the static area
\* only grows, and finish declares it iff its size is greater than 0
C18_ReturnAreasKeepMaxima ==
    /\ [](aborted = "none" => return_pointer_area = Largest(ExportRequests(Taken)))
    /\ [][/\ Next1("import") /\ aborted' = "none" =>
                /\ fb'.import_return_pointer_area =
                       Largest(Requests(CallImport(Funcs[Head(todo).f].params,
                                                   Funcs[Head(todo).f].result)))
                /\ return_pointer_area' = return_pointer_area
                /\ fb'.area = return_pointer_area
          /\ Next1("export") /\ aborted' = "none" =>
                /\ fb'.import_return_pointer_area = ElementInfo(0, 0)
                /\ return_pointer_area' = fb'.area
          /\ return_pointer_area'.size >= return_pointer_area.size
          /\ return_pointer_area'.align >= return_pointer_area.align
          /\ Next1("finish") /\ files' # <<>> =>
                /\ HasStaticArea(files'[3]) <=> return_pointer_area.size > 0
                /\ \A i \in DOMAIN files'[3].content :
                       files'[3].content[i].op = "static_ret_area" =>
                           files'[3].content[i].name = <<ToString(return_pointer_area.align),
                                                         ToString(return_pointer_area.size)>>]_vars

\* a pass is finished whose static area was declared, after an export asked
\* for less than the static area already had and an import body had a local
\* area of its own
C18_Witness ==
    /\ files # <<>> /\ HasStaticArea(files[3])
    /\ \E i \in DOMAIN Taken :
           /\ Taken[i].op = "export"
           /\ LET asked == Largest(Requests(CallExport(Funcs[Taken[i].f].params,
                                                       Funcs[Taken[i].f].result)))
              IN  asked.size > 0 /\ asked.size < return_pointer_area.size
    /\ \E i \in DOMAIN Taken :
           /\ Taken[i].op = "import"
           /\ Requests(CallImport(Funcs[Taken[i].f].params, Funcs[Taken[i].f].result)) # {}

-----------------------------------------------------------------------------
(* Passes over worlds that hold a feature that is not implemented: a type   *)
(* of the world that is, or holds, a future, a stream or an error-context,  *)
(* strings under the compact UTF-16 encoding, or a function with several    *)
(* core results.                                                            *)

TodoKinds == {"Future", "Stream", "ErrorContext"}

\* the named types of the world that lead to a type of TodoKinds (0: none)
TodoTypes == {0, 52, 54, 56}

TodoWorlds ==
    {[w EXCEPT !.imports = IF t = 0 THEN @
                           ELSE Append(@, Item(KeyName(Types[t].name), "Type", t))] :
        w \in {WorldOf(I, E, wimp, wexp) :
                  I \in {{}, {1}, {4}, {3, 4}}, E \in {{}, {1}, {4}},
                  wimp \in BOOLEAN, wexp \in BOOLEAN},
        t \in TodoTypes}

TodoOpts == {NoOpts, [NoOpts EXCEPT !.string_encoding = "CompactUTF16"],
             [NoOpts EXCEPT !.string_encoding = "UTF16"]}

InitTodo == PassInit(TodoWorlds, TodoOpts, {0, 10}) /\ SigIdle /\ CvIdle /\ FnIdle /\ SrcIdle
NextTodo == PassNext
SpecTodo == InitTodo /\ [][NextTodo]_vars

Compact == opts.string_encoding = "CompactUTF16"

\* the types a call of the pass defines
LiveOf(st) ==
    CASE st.op = "define_interface_types" -> AddInterface(<<>>, st.iface)
      [] st.op = "define_function_types" -> AddFuncs(<<>>, st.ids)
      [] st.op = "import_types" -> AddTypeIds(<<>>, st.ids)
      [] OTHER -> <<>>
DefinesTodoType(st) == \E t \in Range(LiveOf(st)) : Types[t].kind \in TodoKinds

\* the call generates the body of a function, and the body lifts a string
LiftsString(st) ==
    /\ st.op \in {"import", "export"}
    /\ \E i \in DOMAIN call(st.in_import, Funcs[st.f].params, Funcs[st.f].result) :
           call(st.in_import, Funcs[st.f].params, Funcs[st.f].result)[i].op = "StringLift"

\* a string among the types and the signatures the pass goes through
UsesString(st) ==
    \/ \E t \in Range(LiveOf(st)) : \E i \in DOMAIN Types[t].tys : Types[t].tys[i] = Prim("String")
    \/ /\ st.op \in {"import", "export"}
       /\ \/ Funcs[st.f].result = Prim("String")
          \/ \E i \in DOMAIN Funcs[st.f].params : Funcs[st.f].params[i] = Prim("String")

Unsupported(w) ==
    \E i \in DOMAIN Script(w) :
        \/ DefinesTodoType(Script(w)[i])
        \/ Compact /\ UsesString(Script(w)[i])
        \/ multi # 0 /\ Script(w)[i].op \in {"import", "export"} /\ Script(w)[i].f = multi

\* C19: a pass over a world with a feature that is not implemented ends in a
\* panic and leaves no file.  The panic is raised by the call that defines a
\* future, stream or error-context type, by import or export of a function
\* with several core results, and, under compact UTF-16, by import or export
\* of a function whose body lifts a string; a string that is only declared
\* or lowered ends the pass at finish
C19_UnsupportedNeverCompletes ==
    /\ [](Unsupported(world) /\ todo = <<>> => aborted # "none" /\ files = <<>>)
    /\ [](~Unsupported(world) => aborted = "none")
    /\ [][aborted = "none" /\ todo # <<>> =>
            /\ \/ DefinesTodoType(Head(todo))
               \/ AtMulti
               \/ Compact /\ LiftsString(Head(todo))
               \/ Compact /\ needs_string /\ Head(todo).op = "finish"
               => aborted' # "none" /\ todo' = <<>> /\ files' = <<>>
            /\ Compact /\ Head(todo).op # "finish" /\ ~LiftsString(Head(todo))
               /\ ~DefinesTodoType(Head(todo)) /\ ~AtMulti
               => aborted' = "none"]_vars

\* under compact UTF-16 a pass went through all its calls with strings among
\* its types, and was ended by finish
C19_Witness ==
    /\ Compact /\ needs_string
    /\ aborted = "unimplemented"
    /\ files = <<>>
    /\ \E i \in DOMAIN gsrc.c_fns : gsrc.c_fns[i].op = "cabi_realloc"

\* C19 as stated: under compact UTF-16 generation is over once a string type
\* has been printed
C19_AbortsAtOnce == Compact /\ needs_string => aborted # "none"

-----------------------------------------------------------------------------
(* Passes with renames that match an interface of the world, a function of  *)
(* the world, or nothing.                                                   *)

\* `--rename my:pkg/nothing=zz`, `--rename my:pkg/api=ap`, `--rename h1=hh`
RenameNothing == [from |-> [qualified |-> TRUE, toks |-> <<"my", "pkg", "nothing">>],
                  to |-> <<"zz">>]
RenameApi == [from |-> NameWorldKey(KeyInterface(2)), to |-> <<"ap">>]
RenameH1 == [from |-> NameWorldKey(KeyName(<<"h1">>)), to |-> <<"hh">>]

RenameOpts ==
    {[NoOpts EXCEPT !.rename = r] :
        r \in {<<>>, <<RenameNothing>>, RenameTypes, RenameTypes \o <<RenameNothing>>,
               <<RenameNothing>> \o RenameTypes \o <<RenameApi>>,
               <<RenameApi, RenameNothing>>, <<RenameH1, RenameNothing>> \o RenameTypes}}

RenameWorlds ==
    {w \in {WorldOf(I, E, wimp, wexp) :
               I \in {{}, {1}, {1, 2}}, E \in {{}, {1}, {2}},
               wimp \in BOOLEAN, wexp \in BOOLEAN} :
        ValidWorld(InterfaceIdsOf(w.imports), InterfaceIdsOf(w.exports))}

InitRename == PassInit(RenameWorlds, RenameOpts, {0}) /\ SigIdle /\ CvIdle /\ FnIdle /\ SrcIdle
NextRename == PassNext
SpecRename == InitRename /\ [][NextRename]_vars

\* the keys of the world's imports and exports, and the renames that name one
WorldKeys == {(world.imports \o world.exports)[i].key : i \in DOMAIN (world.imports \o world.exports)}
Matches(r) == \E k \in WorldKeys : NameWorldKey(k) = r.from
\* the renames requested without those that match nothing
Clean == SelectSeq(opts.rename, Matches)

\* the identifier of an interface key when only the renames of Clean are requested
Unrenamed(key, in_export) ==
    IF key.kind = "Name" THEN key.name
    ELSE (IF in_export THEN <<"exports">> ELSE <<>>)
         \o Packages[Interfaces[key.id].package].namespace
         \o Packages[Interfaces[key.id].package].name
         \o Interfaces[key.id].name
RefIdentifier(key, in_export) ==
    LET hits == {j \in DOMAIN Clean : Clean[j].from = NameWorldKey(key)}
    IN  IF hits = {} THEN Unrenamed(key, in_export)
        ELSE (IF in_export /\ key.kind = "Interface" THEN <<"exports">> ELSE <<>>)
             \o Clean[CHOOSE j \in hits : TRUE].to

-----------------------------------------------------------------------------
(* Source (source.rs): the buffer the generated text is written to.  A      *)
(* string is the sequence of its characters.                                *)

NL == "\n"
IsSpace(c) == c \in {" ", NL}

\* str::lines: the pieces between the line feeds, without a last empty piece
RECURSIVE SplitNL(_, _)
SplitNL(src, piece) ==
    IF src = <<>> THEN <<piece>>
    ELSE IF Head(src) = NL THEN <<piece>> \o SplitNL(Tail(src), <<>>)
    ELSE SplitNL(Tail(src), Append(piece, Head(src)))
lines(src) ==
    LET pieces == SplitNL(src, <<>>)
    IN  IF pieces[Len(pieces)] = <<>> THEN Front(pieces) ELSE pieces

\* str::trim
RECURSIVE trim_start(_)
trim_start(line) ==
    IF line # <<>> /\ IsSpace(Head(line)) THEN trim_start(Tail(line)) ELSE line
RECURSIVE trim_end(_)
trim_end(line) ==
    IF line # <<>> /\ IsSpace(line[Len(line)]) THEN trim_end(Front(line)) ELSE line
trim(line) == trim_end(trim_start(line))

starts_with(line, prefix) ==
    Len(line) >= Len(prefix) /\ SubSeq(line, 1, Len(prefix)) = prefix
ends_with(src, c) == src # <<>> /\ src[Len(src)] = c

\* `for _ in 0..self.indent { self.s.push_str("  ") }`
RECURSIVE Indentation(_)
Indentation(n) == IF n = 0 THEN <<>> ELSE <<" ", " ">> \o Indentation(n - 1)

\* Source::newline (source.rs:58-62)
newline(o) ==
    [o EXCEPT !.in_line_comment = FALSE, !.continuing_line = FALSE, !.s = Append(@, NL)]

\* one round of the loop of push_str (source.rs:21-40): last tells whether
\* the line is followed by a line feed
PushLine(o, line, feed) ==
    LET o1 == IF starts_with(trim(line), <<"/", "/">>)
              THEN [o EXCEPT !.in_line_comment = TRUE] ELSE o
        o2 == IF ~o1.continuing_line
              THEN [o1 EXCEPT !.s = IF line # <<>> THEN @ \o Indentation(o1.indent) ELSE @,
                              !.continuing_line = TRUE]
              ELSE o1
        o3 == [o2 EXCEPT !.s = @ \o line]
    IN  IF feed THEN newline(o3) ELSE o3

\* Source::push_str (source.rs:19-41)
RECURSIVE PushLines(_, _, _, _)
PushLines(o, ls, i, src) ==
    IF i > Len(ls) THEN o
    ELSE PushLines(PushLine(o, ls[i], i # Len(ls) \/ ends_with(src, NL)), ls, i + 1, src)
push_str(o, src) == PushLines(o, lines(src), 1, src)

\* the strings pushed: lines that open and close a brace, an `else if`, a
\* line and a block that carry indentation of their own, a comment, pieces
\* of a line
Pushes ==
    {<<"y", "{", NL>>, <<"y", NL>>, <<"}", NL>>, <<"}", " ", "y", "{", NL>>,
     <<" ", " ", " ", "y", NL>>, <<"y", "{", NL, " ", " ", " ", "y", NL, " ", "}">>,
     <<"y", NL, " ", " ", "y", NL>>, <<"/", "/", "y", NL>>, <<"y">>, <<NL>>, <<>>}

\* the number of calls made on one Source, and the deepest indentation set
MaxPushes == 3
MaxIndent == 2

SourceInit == out = NewSource /\ pushed = <<>>

PushStr ==
    /\ Len(pushed) < MaxPushes
    /\ \E src \in Pushes :
           /\ out' = push_str(out, src)
           /\ pushed' = Append(pushed, [op |-> "push_str", src |-> src])
    /\ UNCHANGED <<passVars, sigVars, cvVars, fnVars>>

\* Source::indent (source.rs:43-45)
Indent ==
    /\ Len(pushed) < MaxPushes /\ out.indent < MaxIndent
    /\ out' = [out EXCEPT !.indent = @ + 1]
    /\ pushed' = Append(pushed, [op |-> "indent", src |-> <<>>])
    /\ UNCHANGED <<passVars, sigVars, cvVars, fnVars>>

\* Source::deindent (source.rs:47-49), called with what was indented before
Deindent ==
    /\ Len(pushed) < MaxPushes /\ out.indent >= 1
    /\ out' = [out EXCEPT !.indent = @ - 1]
    /\ pushed' = Append(pushed, [op |-> "deindent", src |-> <<>>])
    /\ UNCHANGED <<passVars, sigVars, cvVars, fnVars>>

InitSource == PassIdle /\ SigIdle /\ CvIdle /\ FnIdle /\ SourceInit
NextSource == PushStr \/ Indent \/ Deindent
SpecSource == InitSource /\ [][NextSource]_vars

-----------------------------------------------------------------------------
(* Claims about Source (SpecSource).                                        *)

\* only push_str was called, each time with one whole line
WholeLine(src) == ends_with(src, NL) /\ \A i \in 1..(Len(src) - 1) : src[i] # NL
OnlyLines == \A i \in DOMAIN pushed : pushed[i].op = "push_str" /\ WholeLine(pushed[i].src)

\* the lines pushed start and end with what is written on them
Bare == \A i \in DOMAIN pushed : pushed[i].src = trim(pushed[i].src) \o <<NL>>

\* the text of lines re-indented by their brace nesting, from a depth on
RECURSIVE Reindent(_, _, _)
Reindent(calls, i, depth) ==
    IF i > Len(calls) THEN <<>>
    ELSE LET t == trim(calls[i].src)
             at == IF t # <<>> /\ Head(t) = "}" /\ depth > 0 THEN depth - 1 ELSE depth
             next == IF ends_with(t, "{") THEN at + 1 ELSE at
         IN  (IF t = <<>> THEN <<>> ELSE Indentation(at) \o t) \o <<NL>>
             \o Reindent(calls, i + 1, next)

\* C21: when whole lines are pushed one after another, the line after a line
\* that ends with an opening brace is written one indentation level deeper,
\* and a line that starts with a closing brace closes a level before it is
\* written
C21_BraceReindent == (OnlyLines /\ Bare) => out.s = Reindent(pushed, 1, 0)

\* only push_str was called, each time at the start of a line, and not a
\* brace is among what was pushed
AtLineStart ==
    /\ \A i \in DOMAIN pushed : pushed[i].op = "push_str"
    /\ \A i \in 1..(Len(pushed) - 1) : pushed[i].src = <<>> \/ ends_with(pushed[i].src, NL)
NoBraces == \A i \in DOMAIN pushed : \A j \in DOMAIN pushed[i].src : pushed[i].src[j] \notin {"{", "}"}
ComesAfterFeed(i) == i = 1 \/ out.s[i - 1] = NL

\* C22: the whitespace the lines of a pushed string start with does not
\* reach the buffer: at indentation level 0 no line of the buffer starts
\* with a blank
C22_LeadingWhitespaceDiscarded ==
    (AtLineStart /\ NoBraces) => \A i \in DOMAIN out.s : ComesAfterFeed(i) => out.s[i] # " "


-----------------------------------------------------------------------------
(* The blocks of a body: push_block and finish_block.                       *)

\* the blocks open after the first k instructions of a body
RECURSIVE Unmatched(_, _)
Unmatched(code, k) ==
    IF k = 0 THEN 0
    ELSE Unmatched(code, k - 1)
         + (CASE code[k].op = "push_block" -> 1
              [] code[k].op = "finish_block" -> -1
              [] OTHER -> 0)

\* the push_block a finish_block at q closes
Opener(code, q) ==
    CHOOSE p \in 1..(q - 1) :
        /\ code[p].op = "push_block"
        /\ Unmatched(code, p - 1) = Unmatched(code, q)
        /\ \A r \in (p + 1)..(q - 1) : Unmatched(code, r) > Unmatched(code, q)

\* the body as the generator starts it, and as the first k instructions
\* leave it
StartOfBody ==
    [NewFunctionBindgen(FnSig(fn_in.result, ~opts.no_sig_flattening), ElementInfo(0, 0))
        EXCEPT !.locals = SeededLocals(cur.in_import,
                                       FnSig(fn_in.result, ~opts.no_sig_flattening),
                                       fn_in.params)]
BodyAfter(k) == RunBody(resources, cur.in_import, StartOfBody, SubSeq(fn_in.code, 1, k))

JustRan(ops) ==
    fb.abort = "none" /\ fb.pc > 1 /\ fb.pc - 1 \in DOMAIN fn_in.code
    /\ fn_in.code[fb.pc - 1].op \in ops

\* as many buffers are saved as blocks are open
DepthIsUnmatched ==
    fb.abort = "none" => Len(fb.block_storage) = Unmatched(fn_in.code, fb.pc - 1)

\* once a block is finished the buffer is what it was before the block
\* was opened
BalancedRestores ==
    JustRan({"finish_block"}) =>
        fb.src = BodyAfter(Opener(fn_in.code, fb.pc - 1) - 1).src

\* push_block saves the buffer on top and starts an empty one
PushSaves ==
    AtInst({"push_block"}) =>
        /\ fb'.block_storage = Append(fb.block_storage, fb.src)
        /\ fb'.src = <<>>
        /\ fb'.blocks = fb.blocks

\* finish_block gives the buffer back to the block saved last and appends
\* what the block wrote, with its operands, to blocks
FinishRestores ==
    AtInst({"finish_block"}) =>
        /\ fb.block_storage # <<>>
        /\ fb'.src = fb.block_storage[Len(fb.block_storage)]
        /\ fb'.block_storage = SubSeq(fb.block_storage, 1, Len(fb.block_storage) - 1)
        /\ Len(fb'.blocks) = Len(fb.blocks) + 1
        /\ SubSeq(fb'.blocks, 1, Len(fb.blocks)) = fb.blocks
        /\ fb'.blocks[Len(fb'.blocks)].src = fb.src
        /\ Len(fb'.blocks[Len(fb'.blocks)].operands) = fn_in.code[fb.pc].n

\* C23: blocks are pushed and popped last in, first out: push_block saves
\* the current buffer and starts an empty one, finish_block restores the
\* buffer saved last unchanged and appends the finished text with its
\* operands to blocks; after a balanced sequence the buffer is what it was
\* before the first push, and the depth of the saved buffers is the number
\* of push_block calls not yet matched
C23_BlocksAreLifo ==
    /\ [](DepthIsUnmatched /\ BalancedRestores)
    /\ [][PushSaves /\ FinishRestores]_vars

\* a block that wrote a statement and left an operand is finished inside
\* another open block, and the buffer given back holds statements
C23_Witness ==
    /\ JustRan({"finish_block"})
    /\ fb.src # <<>>
    /\ fb.block_storage # <<>>
    /\ fb.blocks[Len(fb.blocks)].src # <<>>
    /\ fb.blocks[Len(fb.blocks)].operands # <<>>


-----------------------------------------------------------------------------
(* The order of the statements an export adapter ends with.                 *)

\* C24: at the Return of an export adapter the body is put together as the
\* declarations of the borrow temporaries, then every statement written
\* before, then one drop for each captured borrow in the order of capture,
\* then the return; after a drop nothing follows but drops and the return
C24_ReturnOrder ==
    [][(AtInst({"Return"}) /\ InExport) =>
          LET decls == Len(fb.borrow_decls)
              stmts == Len(fb.src)
              drops == Len(fb.borrows)
              amt == fn_in.code[fb.pc].n
          IN  /\ Len(fb'.src) = decls + stmts + drops + amt
              /\ SubSeq(fb'.src, 1, decls) = fb.borrow_decls
              /\ \A i \in 1..decls : fb'.src[i].op = "decl"
              /\ SubSeq(fb'.src, decls + 1, decls + stmts) = fb.src
              /\ \A i \in 1..drops :
                    /\ fb'.src[decls + stmts + i].op = "drop"
                    /\ fb'.src[decls + stmts + i].name = fb.borrows[i].name
              /\ amt = 1 => fb'.src[Len(fb'.src)].op = "return"
              /\ \A i, j \in DOMAIN fb'.src :
                    (i < j /\ fb'.src[i].op = "drop") => fb'.src[j].op \in {"drop", "return"}
              /\ fb'.borrow_decls = <<>>]_vars

\* an export adapter has returned: the declarations of two borrows, the
\* copies and the call, the two drops, the return
C24_Witness ==
    /\ InExport /\ Returned
    /\ Len(fb.borrows) = 2
    /\ fb.borrows[1].ty # fb.borrows[2].ty
    /\ Ops(fb.src) = <<"decl", "decl", "assign", "assign", "call_interface", "drop", "drop",
                       "return">>


-----------------------------------------------------------------------------
(* The unions of the bit casts: worlds whose functions take variants whose  *)
(* cases share a slot of another core type.                                 *)

CastFuncs == {12, 13, 14, 15, 16}
MaxCastFuncs == 2
InOrder(F) == SelectSeq(<<12, 13, 14, 15, 16>>, LAMBDA f : f \in F)
FuncItems(F) ==
    [i \in DOMAIN InOrder(F) |-> Item(KeyName(Funcs[InOrder(F)[i]].name), "Function", InOrder(F)[i])]
TypeItems(F) ==
    [i \in DOMAIN InOrder(F) |->
        Item(KeyName(Types[Funcs[InOrder(F)[i]].params[1].id].name), "Type",
             Funcs[InOrder(F)[i]].params[1].id)]
CastWorlds ==
    {[imports |-> WorldOf(U, {}, FALSE, FALSE).imports \o TypeItems(I \cup E) \o FuncItems(I),
      exports |-> FuncItems(E)] :
        I, E \in {F \in SUBSET CastFuncs : Cardinality(F) <= MaxCastFuncs}, U \in {{}, {4}}}
CastOpts == {[NoOpts EXCEPT !.no_helpers = h] : h \in BOOLEAN}

InitUnion == PassInit(CastWorlds, CastOpts, {0}) /\ SigIdle /\ CvIdle /\ FnIdle /\ SrcIdle
NextUnion == PassNext
SpecUnion == InitUnion /\ [][NextUnion]_vars

\* the casts of an instruction stream, those of a Sequence one by one, and
\* the unions they go through
RECURSIVE SingleCasts(_)
SingleCasts(bitcast) ==
    IF bitcast.op = "Sequence"
    THEN SingleCasts(bitcast.first) \cup SingleCasts(bitcast.second)
    ELSE {bitcast.op}
CastsOf(code) == UNION {Range(code[i].casts) : i \in DOMAIN code}
UnionsOf(code) ==
    {UnionOf(c) : c \in UNION {SingleCasts(b) : b \in CastsOf(code)}} \ {<<>>}

\* the unions of the functions generated by the steps taken so far
UnionsRendered(steps) ==
    UNION {UnionsOf(call(steps[i].op = "import", Funcs[steps[i].f].params,
                         Funcs[steps[i].f].result)) :
              i \in {j \in DOMAIN steps : steps[j].op \in {"import", "export"}}}

UnionsDeclared(file, union) ==
    Cardinality({i \in DOMAIN file.content :
                    file.content[i].op = "union" /\ file.content[i].name = union})

\* the casts a body was handed, in order
RECURSIVE Flatten(_)
Flatten(seqs) == IF seqs = <<>> THEN <<>> ELSE Head(seqs) \o Flatten(Tail(seqs))
CastsHanded(code) == Flatten([i \in DOMAIN code |-> code[i].casts])
Text(bitcast, op) == perform_cast({}, op, bitcast).text

\* a flag is set as soon as a cast through its union is rendered, and stays
FlagsFollowCasts ==
    /\ [](aborted = "none" => needs_union = UnionsRendered(Taken))
    /\ [][needs_union \subseteq needs_union']_vars

\* the second cast of a Sequence is applied to what the first made of the
\* operand
SequenceInOrder ==
    [][((Next1("import") \/ Next1("export")) /\ aborted' = "none") =>
          LET handed == CastsHanded(call(Head(todo).op = "import", Funcs[Head(todo).f].params,
                                         Funcs[Head(todo).f].result))
          IN  /\ Len(fb'.bitcasts) = Len(handed)
              /\ \A i \in DOMAIN handed :
                    handed[i].op = "Sequence" =>
                        fb'.bitcasts[i] =
                            Text(handed[i].second, Text(handed[i].first, Var("op")))]_vars

\* the file of a finished pass declares each union once if a cast through
\* it was rendered, and not otherwise
DeclaredAsRendered ==
    \A u \in Range(UnionNames) :
        UnionsDeclared(files'[3], u) = (IF u \in UnionsRendered(Taken) THEN 1 ELSE 0)

\* C25: the union a cast between a float and an integer goes through is
\* declared lazily: its flag is set when the first such cast is rendered and
\* never cleared; finish declares the union in the output exactly once if a
\* cast through it was rendered in the pass and not at all otherwise; a
\* Sequence cast applies its first cast to the operand and its second to the
\* result of the first
C25_UnionsDeclaredLazily ==
    /\ FlagsFollowCasts
    /\ SequenceInOrder
    /\ [][(Next1("finish") /\ files' # <<>>) => DeclaredAsRendered]_vars

\* what does hold: the passes that write the helper section declare the
\* unions so
UnionsDeclaredWithHelpers ==
    /\ FlagsFollowCasts
    /\ SequenceInOrder
    /\ [][(Next1("finish") /\ files' # <<>> /\ ~opts.no_helpers) => DeclaredAsRendered]_vars

\* a pass without helpers is finished after a cast through a union was
\* rendered: the file uses the union and does not declare it
UndeclaredUnion ==
    /\ files # <<>> /\ opts.no_helpers
    /\ <<"float", "int32">> \in needs_union
    /\ UnionsDeclared(files[3], <<"float", "int32">>) = 0


-----------------------------------------------------------------------------
(* The blocks and payload names a dispatch takes.                           *)

\* the arms of the instruction at hand
ArmCount(inst) ==
    CASE inst.op \in {"OptionLift", "OptionLower", "ResultLift", "ResultLower"} -> 2
      [] inst.op \in {"VariantLift", "VariantLower"} -> Len(Types[inst.ty].tys)
      [] inst.op \in {"ListLift", "ListLower"} -> 1
      [] OTHER -> 0

\* the blocks finished and the payload names made by the first k
\* instructions of a body that no dispatch has taken yet
RECURSIVE BlocksLeft(_, _), PayloadsLeft(_, _)
BlocksLeft(code, k) ==
    IF k = 0 THEN 0
    ELSE BlocksLeft(code, k - 1) + (IF code[k].op = "finish_block" THEN 1 ELSE 0)
         - ArmCount(code[k])
PayloadsLeft(code, k) ==
    IF k = 0 THEN 0
    ELSE PayloadsLeft(code, k - 1) + (IF code[k].op = "VariantPayloadName" THEN 1 ELSE 0)
         - (IF code[k].op \in Lowers THEN ArmCount(code[k]) ELSE 0)

TopBlock(i, k) == fb.blocks[Len(fb.blocks) - k + i]
TopPayload(i, k) == fb.payloads[Len(fb.payloads) - k + i]
Spliced == fb'.src[Len(fb'.src)].arg

\* the arm of a case among the arms spliced
ArmOf(case) == CHOOSE a \in Range(Spliced) : a.case = case

\* C26: a dispatch takes exactly its own arms off the top of blocks and
\* leaves the blocks below as they were: a variant takes as many blocks as
\* it has cases, block i for case i; an option takes two, the earlier for
\* none and the later for some; a result takes two, the earlier for ok and
\* the later for err; a list takes one; a lowering also takes one payload
\* name for each arm
C26_DispatchTakesItsArms ==
    /\ [](fb.abort = "none" =>
             /\ Len(fb.blocks) = BlocksLeft(fn_in.code, fb.pc - 1)
             /\ Len(fb.payloads) = PayloadsLeft(fn_in.code, fb.pc - 1))
    /\ [](fb.abort # "assertion failed")
    /\ [][(AtInst(Lowers \cup Lifts \cup {"ListLift", "ListLower"}) /\ fb'.abort = "none") =>
             LET inst == fn_in.code[fb.pc]
                 k == ArmCount(inst)
             IN  /\ Len(fb.blocks) >= k
                 /\ fb'.blocks = SubSeq(fb.blocks, 1, Len(fb.blocks) - k)
                 /\ inst.op \in Lowers =>
                       /\ Len(fb.payloads) >= k
                       /\ fb'.payloads = SubSeq(fb.payloads, 1, Len(fb.payloads) - k)
                       /\ \A i \in 1..k : Spliced[i].payload = TopPayload(i, k)
                 /\ inst.op \notin Lowers => fb'.payloads = fb.payloads
                 /\ inst.op \in Lowers \cup Lifts => Len(Spliced) = k
                 /\ inst.op \in {"VariantLift", "VariantLower"} =>
                       \A i \in 1..k :
                           /\ Spliced[i].case = ToString(i - 1)
                           /\ Spliced[i].block = TopBlock(i, k)
                 /\ inst.op \in {"OptionLift", "OptionLower"} =>
                       /\ ArmOf("none").block = TopBlock(1, 2)
                       /\ ArmOf("some").block = TopBlock(2, 2)
                 /\ inst.op \in {"ResultLift", "ResultLower"} =>
                       /\ ArmOf("ok").block = TopBlock(1, 2)
                       /\ ArmOf("err").block = TopBlock(2, 2)
                 /\ inst.op \in Lifts =>
                       \A i \in 1..k :
                           Len(Spliced[i].block.operands) =
                               (IF CaseTys(inst.ty)[i] = NoTy THEN 0 ELSE 1)]_vars

\* an option is lowered inside the later arm of a result: the block of the
\* earlier arm and the payload names of the result stay below, and each arm
\* of the option has the name of its own payload
C26_Witness ==
    /\ JustRan({"OptionLower"})
    /\ Len(fb.blocks) = 1
    /\ Len(fb.payloads) = 2
    /\ fb.src # <<>>
    /\ fb.src[Len(fb.src)].op = "cases"
    /\ fb.src[Len(fb.src)].arg[1].payload # fb.src[Len(fb.src)].arg[2].payload
    /\ fb.src[Len(fb.src)].arg[2].payload \notin Range(fb.payloads)

\* an option is lifted inside the later arm of a result: the block of the
\* earlier arm stays below and the two arms of the option differ
DispatchLiftedInArm ==
    /\ JustRan({"OptionLift"})
    /\ Len(fb.blocks) = 1
    /\ fb.src # <<>>
    /\ fb.src[Len(fb.src)].op = "cases"
    /\ fb.src[Len(fb.src)].arg[1].block # fb.src[Len(fb.src)].arg[2].block


-----------------------------------------------------------------------------
(* Passes over worlds that import and export an interface under one key:    *)
(* a package interface (`import my:pkg/types; export my:pkg/types;`), or    *)
(* two interfaces written inline under one name (`import inl: interface {   *)
(* run: func(x: u32) -> u32; }` next to `export inl: interface { .. }`).    *)

InlineNames == {<<"inl">>, <<"out">>}

\* `--rename inl=zz`
RenameInl == [from |-> NameWorldKey(KeyName(<<"inl">>)), to |-> <<"zz">>]

BothOpts == {[NoOpts EXCEPT !.rename = r] : r \in {<<>>, RenameTypes, <<RenameApi>>, <<RenameInl>>}}

BothWorlds ==
    {w \in {WorldOf(I, E, wimp, wexp) :
               I \in {{1}, {1, 2}}, E \in {{1}, {2}, {1, 2}},
               wimp \in BOOLEAN, wexp \in BOOLEAN} :
        /\ ValidWorld(InterfaceIdsOf(w.imports), InterfaceIdsOf(w.exports))
        /\ InterfaceIdsOf(w.imports) \cap InterfaceIdsOf(w.exports) # {}}
    \cup {[imports |-> <<Item(KeyName(n), "Interface", 5)>>,
           exports |-> <<Item(KeyName(m), "Interface", 6)>>] : n \in InlineNames, m \in InlineNames}

InitBoth == PassInit(BothWorlds, BothOpts, {0}) /\ SigIdle /\ CvIdle /\ FnIdle /\ SrcIdle
NextBoth == PassNext
SpecBoth == InitBoth /\ [][NextBoth]_vars

\* the keys the world imports an interface under and exports one under
BothKeys ==
    {k \in {world.imports[i].key : i \in DOMAIN world.imports} :
        \E e \in DOMAIN world.exports :
            world.exports[e].key = k /\ world.exports[e].kind = "Interface"}

\* the names of the signatures printed so far, and of the named types declared
SigNames == SelectSeq(gsrc.h_fns \o isrc.h_fns, LAMBDA it : it.op \in {"function", "procedure"})
NamedDecls ==
    SelectSeq(gsrc.h_defs \o isrc.h_defs,
              LAMBDA it : it.op = "type" /\ Types[it.ty].kind # "Resource" /\ Types[it.ty].name # <<>>)
NoTwo(items) == \A i, j \in DOMAIN items : i # j => items[i].name # items[j].name

\* C27: in a world that imports and exports an interface under one key, of
\* whatever kind the key is, the pass never aborts with `duplicate symbols`,
\* no two signatures have one name and no two declarations of named types
\* have one name
C27_BothSidesNamedApart ==
    BothKeys # {} => aborted # "duplicate symbols" /\ NoTwo(SigNames) /\ NoTwo(NamedDecls)

\* the same for the keys that are interfaces of a package, renamed or not
PackageKeysNamedApart ==
    BothKeys # {} /\ (\A k \in BothKeys : k.kind = "Interface")
    => aborted # "duplicate symbols" /\ NoTwo(SigNames) /\ NoTwo(NamedDecls)

\* a finished pass that printed the functions of my:pkg/api for both sides
\* under the rename `ap`
PackageKeysBothPrinted ==
    /\ files # <<>> /\ KeyInterface(2) \in BothKeys /\ Renamed(KeyInterface(2))
    /\ \E i, j \in DOMAIN SigNames :
           /\ SigNames[i].name = <<"ap">> \o Funcs[SigNames[i].fn].name
           /\ SigNames[j].name = <<"exports", "ap">> \o Funcs[SigNames[j].fn].name

\* the export of the inline interface `inl` has aborted the pass after the
\* signature of the import of `inl` was printed
InlineExportAborted ==
    /\ KeyName(<<"inl">>) \in BothKeys
    /\ aborted = "duplicate symbols"
    /\ \E i \in DOMAIN SigNames : SigNames[i].name = <<"inl", "run">>


-----------------------------------------------------------------------------
(* The destructor table against the name registry.                          *)

\* a value of the type holds a string or a list, directly or nested
RECURSIVE OwnsHeap(_)
OwnsHeap(ty) ==
    CASE ty.k = "String" -> TRUE
      [] ty.k # "Id" -> FALSE
      [] Types[ty.id].kind = "List" -> TRUE
      [] Types[ty.id].kind \in {"Type", "Record", "Tuple", "Variant", "Option", "Result"} ->
            \E i \in DOMAIN Types[ty.id].tys :
                Types[ty.id].tys[i] # NoTy /\ OwnsHeap(Types[ty.id].tys[i])
      [] OTHER -> FALSE

\* the registered types that hold heap data and have no destructor entry
Undestroyed == {t \in DOMAIN type_names : OwnsHeap(Id(t)) /\ t \notin DOMAIN dtor_funcs}

\* C28: whatever was registered and purged, every type of the name registry
\* whose value holds a string or a list has an entry in the destructor table,
\* a pooled primitive-only anonymous type whose name was declared before
\* included
C28_HeapOwnersHaveDtors == Undestroyed = {}

\* the same for the types that are not pooled, and for the pooled ones whose
\* registration was the first to declare their name
UnpooledHaveDtors == \A t \in Undestroyed : PooledType(t)
FirstPooledHasDtor ==
    [][\A t \in DOMAIN type_names' \ DOMAIN type_names :
          PooledType(t) /\ OwnsHeap(Id(t)) /\ type_names'[t] \notin prim_names
          => t \in DOMAIN dtor_funcs']_vars

\* interface 1 is exported after it was imported and purged: the pooled
\* list<string> is registered again without a destructor entry, and the
\* destructor of rec, which holds one, is registered
PooledWithoutDtor ==
    /\ aborted = "none" /\ ~cur.in_import /\ cur.iface = 1
    /\ Done("pre_export_interface")
    /\ 4 \in Undestroyed
    /\ 2 \in DOMAIN dtor_funcs


-----------------------------------------------------------------------------
(* The Return of an import wrapper whose signature is a flattened result.   *)

AtResultBool ==
    AtInst({"Return"}) /\ cur.in_import /\ fb.sig.ret.scalar.tag = "ResultBool"
HasOk == fb.sig.ret.scalar.a # NoTy
HasErr == fb.sig.ret.scalar.b # NoTy

\* the statements the step has written, and the stores among them
Written == SubSeq(fb'.src, Len(fb.src) + 1, Len(fb'.src))
PositionsOf(stmts, op) == {i \in DOMAIN stmts : stmts[i].op = op}
StoredField(st) == IF st.arg.node = "field" THEN st.arg.text ELSE "other"

\* C29: the Return of an import wrapper with a ResultBool signature stores
\* the ok payload through the first out-parameter, in the branch taken when
\* the value is no error, and the err payload through the next unused one
\* (the first when there is no ok payload), in the other branch; for every
\* combination of payloads the store counter ends at the number of
\* out-parameters, no store indexes past them and the closing assertion holds
C29_ResultStoresFillRetptrs ==
    [][AtResultBool =>
          LET stores == SelectSeq(Written, LAMBDA st : st.op = "store")
              else == CHOOSE i \in PositionsOf(Written, "else") : TRUE
              n == (IF HasOk THEN 1 ELSE 0) + (IF HasErr THEN 1 ELSE 0)
          IN  /\ fb'.abort = "none"
              /\ Len(fb.sig.retptrs) = n
              /\ fb.ret_store_cnt = 0 /\ fb'.ret_store_cnt = n
              /\ Len(stores) = n
              /\ \A i \in 1..n : stores[i].name = fb.sig.retptrs[i]
              /\ [i \in 1..n |-> StoredField(stores[i])]
                 = (IF HasOk THEN <<"ok">> ELSE <<>>) \o (IF HasErr THEN <<"err">> ELSE <<>>)
              /\ Cardinality(PositionsOf(Written, "else")) = 1
              /\ \A i \in PositionsOf(Written, "store") :
                    (i < else) = (StoredField(Written[i]) = "ok")]_vars

\* the wrapper of a function returning result<u32, string> has returned:
\* two stores, the ok payload through `ret` and the err payload through `err`
C29_Witness ==
    /\ JustRan({"Return"}) /\ cur.in_import /\ fn_in.result = Id(19)
    /\ fb.ret_store_cnt = 2 /\ fb.sig.retptrs = <<"ret", "err">>
    /\ \E i, j \in DOMAIN fb.src :
           /\ i < j
           /\ fb.src[i].op = "store" /\ fb.src[i].name = "ret" /\ fb.src[i].arg.text = "ok"
           /\ fb.src[j].op = "store" /\ fb.src[j].name = "err" /\ fb.src[j].arg.text = "err"

\* the wrapper of a function returning result<_, string> has returned: the
\* err payload went through the first out-parameter
ErrThroughFirst ==
    /\ JustRan({"Return"}) /\ cur.in_import /\ fn_in.result = Id(20)
    /\ fb.ret_store_cnt = 1 /\ Len(fb.sig.retptrs) = 1
    /\ \E i \in DOMAIN fb.src :
           /\ fb.src[i].op = "store" /\ fb.src[i].name = fb.sig.retptrs[1]
           /\ fb.src[i].arg.text = "err"

\* the wrapper of a function returning a result without payloads has
\* returned without a store
NothingStored ==
    /\ JustRan({"Return"}) /\ cur.in_import /\ fn_in.result = Id(22)
    /\ fb.ret_store_cnt = 0 /\ fb.sig.retptrs = <<>>


-----------------------------------------------------------------------------
(* define_dtor on its own: called, in every state a pass reaches, for each  *)
(* registered type as define_live_types calls it for a type it has just     *)
(* named (the type has no destructor entry yet).                            *)

\* the generator of the state, the type not yet in the destructor table
BeforeDtor(t) ==
    [Gen(cur, isrc) EXCEPT !.dtor_funcs = Retain(@, DOMAIN @ \ {t})]
AfterDtor(t) == define_dtor(BeforeDtor(t), t)

\* nothing of a member is to be freed: it is no string and has no destructor
NoDtor(g, ty) == ty.k # "String" /\ ~(ty.k = "Id" /\ ty.id \in DOMAIN g.dtor_funcs)
NothingToFree(g, t) ==
    \/ Types[t].kind \in {"Flags", "Enum", "Resource", "Own", "Borrow"}
    \/ /\ Types[t].kind \in {"Record", "Tuple", "Type"}
       /\ \A i \in DOMAIN Types[t].tys : NoDtor(g, Types[t].tys[i])

\* the items of a complete procedure: head, variables of a list's loop,
\* `begin`, at least one statement, `end`
CompleteFree(items, t, prefix) ==
    LET vars_ == IF Types[t].kind = "List" THEN 1 ELSE 0
    IN  /\ Len(items) >= 4 + vars_
        /\ items[1] = It("free_head", prefix, t)
        /\ vars_ = 1 => items[2].op = "var"
        /\ items[2 + vars_].op = "begin"
        /\ items[Len(items)].op = "end"
        /\ \A i \in DOMAIN items : i \notin {1, Len(items)} => items[i].op \notin {"free_head", "end"}

Dtorable == {t \in DOMAIN type_names : Types[t].kind \notin {"Future", "Stream", "ErrorContext"}}

\* C30: define_dtor is all or nothing.  For a type with nothing to free (flags,
\* enum, resource, handle, or a record, tuple or alias whose members are no
\* strings and have no destructor entry) it leaves the two helper buffers and
\* the destructor table as they were; for every other type it appends the
\* declaration to h_helpers and one complete procedure `{prefix}_free` to
\* c_helpers and registers that name, and nothing else, for the type
C30_DtorAllOrNothing ==
    \A t \in Dtorable :
        LET g == BeforeDtor(t)
            r == AfterDtor(t)
            prefix == Front(type_names[t])
            old == Len(g.src.c_helpers)
        IN  /\ r.abort = "none"
            /\ IF NothingToFree(g, t)
               THEN /\ r.src.c_helpers = g.src.c_helpers
                    /\ r.src.h_helpers = g.src.h_helpers
                    /\ r.dtor_funcs = g.dtor_funcs
               ELSE /\ r.src.h_helpers = Append(g.src.h_helpers, It("free_decl", prefix, t))
                    /\ SubSeq(r.src.c_helpers, 1, old) = g.src.c_helpers
                    /\ CompleteFree(SubSeq(r.src.c_helpers, old + 1, Len(r.src.c_helpers)), t, prefix)
                    /\ r.dtor_funcs = Put(g.dtor_funcs, t, prefix \o <<"free">>)
            /\ \A buf \in DOMAIN r.src \ {"c_helpers", "h_helpers"} : r.src[buf] = g.src[buf]

\* what the passes leave: every destructor entry is `{prefix}_free` of the
\* type's name, and a step that adds an entry adds the procedure's head
DtorEntriesNamed ==
    /\ [](\A t \in DOMAIN dtor_funcs :
              t \in DOMAIN type_names /\ dtor_funcs[t] = Front(type_names[t]) \o <<"free">>)
    /\ [][\A t \in DOMAIN dtor_funcs' \ DOMAIN dtor_funcs :
              \E i \in DOMAIN isrc'.c_helpers :
                  isrc'.c_helpers[i] = It("free_head", Front(type_names'[t]), t)]_vars

\* both cases in one state: helper text is written, the enum option-rec and
\* the handle own<res> are registered with nothing to free, the record rec
\* gets a destructor that frees its string
C30_Witness ==
    /\ aborted = "none"
    /\ isrc.c_helpers # <<>> /\ isrc.h_helpers # <<>>
    /\ {2, 3, 7} \subseteq DOMAIN type_names
    /\ NothingToFree(BeforeDtor(3), 3) /\ NothingToFree(BeforeDtor(7), 7)
    /\ AfterDtor(3).src = isrc /\ AfterDtor(7).src = isrc
    /\ ~NothingToFree(BeforeDtor(2), 2)
    /\ Len(AfterDtor(2).src.c_helpers) > Len(isrc.c_helpers)
    /\ 2 \in DOMAIN AfterDtor(2).dtor_funcs

====
